---- MODULE Spec2Model ----
(***************************************************************************)
(* ruf: trigger expansion (internal/scheduler), the dispatch tick          *)
(* (internal/worker), the sent-message store (internal/kv/bbolt) and the   *)
(* operator commands (cmd) as a state machine.                             *)
(*                                                                         *)
(* Time is an integer count of half seconds since the Unix epoch, so that  *)
(* an instant between two whole seconds can be told from the whole second  *)
(* (time.Now() is not second-aligned; RFC3339 formatting and cron are).    *)
(***************************************************************************)
EXTENDS Integers, Sequences, FiniteSets, TLC

----------------------------------------------------------------------------
(* Durations *)

Second == 2
Minute == 60 * Second
Hour == 60 * Minute
Day == 24 * Hour

\* time.Time.Truncate(d)
Truncate(t, d) == t - (t % d)

\* time.Time.Format(time.RFC3339): the fraction of the second is dropped
RFC3339(t) == Truncate(t, Second)

\* t.Hour() == 0 && t.Minute() == 0 && t.Second() == 0  (UTC)
IsMidnight(t) == (t % Day) < Second

\* strings.ToLower(t.Weekday().String()); 1970-01-01 was a Thursday
WeekdayNames == <<"sunday", "monday", "tuesday", "wednesday", "thursday", "friday", "saturday">>
Weekday(t) == WeekdayNames[(((t \div Day) + 4) % 7) + 1]

----------------------------------------------------------------------------
(* Parsers of the trigger fields, as tables over the expressions used *)

\* cron.NewParser(Minute|Hour|Dom|Month|Dow).Parse: the fire times of an
\* expression are the instants congruent to offset modulo period
CronTable ==
  [e \in {"* * * * *", "*/2 * * * *", "0 * * * *", "0 14 * * *", "0 0 * * *", "bad cron"} |->
     CASE e = "* * * * *"   -> [ok |-> TRUE, period |-> Minute, offset |-> 0]
       [] e = "*/2 * * * *" -> [ok |-> TRUE, period |-> 2 * Minute, offset |-> 0]
       [] e = "0 * * * *"   -> [ok |-> TRUE, period |-> Hour, offset |-> 0]
       [] e = "0 14 * * *"  -> [ok |-> TRUE, period |-> Day, offset |-> 14 * Hour]
       [] e = "0 0 * * *"   -> [ok |-> TRUE, period |-> Day, offset |-> 0]
       [] OTHER             -> [ok |-> FALSE, period |-> Minute, offset |-> 0]]

\* schedule.Next(t): the first fire time at or after the whole second that
\* follows t
CronNext(e, t) ==
  LET c == CronTable[e]
      t1 == Truncate(t, Second) + Second
      r == (t1 - c.offset) % c.period
  IN IF r = 0 THEN t1 ELSE t1 + (c.period - r)

\* time.ParseDuration(trigger.Delta)
DeltaTable ==
  [d \in {"0m", "1m", "4m", "5m", "1h", "bad delta"} |->
     CASE d = "0m" -> [ok |-> TRUE, d |-> 0]
       [] d = "1m" -> [ok |-> TRUE, d |-> Minute]
       [] d = "4m" -> [ok |-> TRUE, d |-> 4 * Minute]
       [] d = "5m" -> [ok |-> TRUE, d |-> 5 * Minute]
       [] d = "1h" -> [ok |-> TRUE, d |-> Hour]
       [] OTHER    -> [ok |-> FALSE, d |-> 0]]

\* rrule.StrToROption / rrule.NewRRule: a rule recurs every period from its
\* Dtstart; hasTime says that the text holds BYHOUR, BYMINUTE or BYSECOND
RRuleTable ==
  [e \in {"FREQ=HOURLY", "FREQ=DAILY", "FREQ=DAILY;BYHOUR=14", "bad rrule"} |->
     CASE e = "FREQ=HOURLY"          -> [ok |-> TRUE, period |-> Hour, hasTime |-> FALSE, at |-> 0]
       [] e = "FREQ=DAILY"           -> [ok |-> TRUE, period |-> Day, hasTime |-> FALSE, at |-> 0]
       [] e = "FREQ=DAILY;BYHOUR=14" -> [ok |-> TRUE, period |-> Day, hasTime |-> TRUE, at |-> 14 * Hour]
       [] OTHER                      -> [ok |-> FALSE, period |-> Day, hasTime |-> FALSE, at |-> 0]]

\* trigger.DStart: "TZID=<zone>:<datetime>" or "<datetime>"; local is the
\* wall-clock instant read as UTC, tzOffset the zone's offset east of UTC
DStartTable ==
  [s \in {"19700104T090000", "TZID=Europe/Berlin:19700104T090000",
          "TZID=Nowhere/None:19700104T090000", "19700104", "bad dstart"} |->
     CASE s = "19700104T090000" ->
            [hasTz |-> FALSE, tzOk |-> TRUE, tzOffset |-> 0, parseOk |-> TRUE, local |-> 3 * Day + 9 * Hour]
       [] s = "TZID=Europe/Berlin:19700104T090000" ->
            [hasTz |-> TRUE, tzOk |-> TRUE, tzOffset |-> Hour, parseOk |-> TRUE, local |-> 3 * Day + 9 * Hour]
       [] s = "TZID=Nowhere/None:19700104T090000" ->
            [hasTz |-> TRUE, tzOk |-> FALSE, tzOffset |-> 0, parseOk |-> TRUE, local |-> 3 * Day + 9 * Hour]
       [] s = "19700104" ->
            [hasTz |-> FALSE, tzOk |-> TRUE, tzOffset |-> 0, parseOk |-> TRUE, local |-> 3 * Day]
       [] OTHER ->
            [hasTz |-> FALSE, tzOk |-> TRUE, tzOffset |-> 0, parseOk |-> FALSE, local |-> 0]]

\* strings.ReplaceAll(to, ".", "_") then ("#", "_")
SanitizeTable ==
  [r \in {"#general", "#ops", "u@x.io", "all@x.io"} |->
     CASE r = "#general" -> "_general"
       [] r = "#ops"     -> "_ops"
       [] r = "u@x.io"   -> "u@x_io"
       [] OTHER          -> "all@x_io"]

Has(rec, f) == f \in DOMAIN rec

RECURSIVE Flatten(_)
Flatten(ss) == IF ss = <<>> THEN <<>> ELSE Head(ss) \o Flatten(Tail(ss))

----------------------------------------------------------------------------
(* Slot engine *)

SearchDays == 365

ReserveSlotAlways(slots, slot, callID) ==
  [reserved |-> TRUE,
   slots |-> [k \in DOMAIN slots \cup {RFC3339(slot)} |-> IF k = RFC3339(slot) THEN callID ELSE slots[k]]]

ReserveSlotNoStore(slots, slot, callID) ==
  [reserved |-> RFC3339(slot) \notin DOMAIN slots, slots |-> slots]

ReserveSlotOverwrites(slots, slot, callID) ==
  [reserved |-> RFC3339(slot) \notin DOMAIN slots,
   slots |-> [k \in DOMAIN slots \cup {RFC3339(slot)} |-> IF k = RFC3339(slot) THEN callID ELSE slots[k]]]

\* Store.ReserveSlot: compare-and-set on the RFC3339 text of the slot time
ReserveSlot(slots, slot, callID) ==
  LET key == RFC3339(slot)
  IN IF key \in DOMAIN slots
     THEN [reserved |-> FALSE, slots |-> slots]
     ELSE [reserved |-> TRUE, slots |-> slots @@ (key :> callID)]

\* the keys tried by findNextAvailableSlot, most specific first:
\* slots.<type>.<sanitized to>, slots.<type>.default, slots.default
SlotKeys(destination) ==
  << <<destination.type, SanitizeTable[destination.to[1]]>>,
     <<destination.type, "default">>,
     <<"default", "">> >>

SlotsByDayLowestFirst(cfg, destination) ==
  LET keys == SlotKeys(destination)
      set == {i \in 1..Len(keys) : keys[i] \in DOMAIN cfg.slots}
  IN IF set = {} THEN <<>>
     ELSE cfg.slots[keys[CHOOSE i \in set : \A j \in set : i >= j]]

\* the first key that viper.IsSet, then GetStringMapStringSlice of it
SlotsByDay(cfg, destination) ==
  LET keys == SlotKeys(destination)
      set == {i \in 1..Len(keys) : keys[i] \in DOMAIN cfg.slots}
  IN IF set = {} THEN <<>>
     ELSE cfg.slots[keys[CHOOSE i \in set : \A j \in set : i <= j]]

\* the slots the two loops visit in the first seven days, in visiting order:
\* day d counted from the scheduled day, then the slots of its weekday in
\* declaration order; the weekdays repeat after seven days, so the loops
\* visit this list again for each following week
WeekSlots(slotsByDay, scheduledAt) ==
  Flatten([n \in 1..7 |->
            LET dayOfWeek == Weekday(scheduledAt + (n - 1) * Day)
            IN IF dayOfWeek \in DOMAIN slotsByDay
               THEN [j \in 1..Len(slotsByDay[dayOfWeek]) |->
                       [d |-> n - 1, h |-> slotsByDay[dayOfWeek][j].h,
                        m |-> slotsByDay[dayOfWeek][j].m]]
               ELSE <<>>])

RECURSIVE SlotSearchTakesPast(_, _, _)
SlotSearchTakesPast(slots, ctx, k) ==
  IF ctx.week = <<>>
  THEN [ok |-> FALSE, t |-> 0, slots |-> slots]
  ELSE LET e == ctx.week[(k % Len(ctx.week)) + 1]
           i == 7 * (k \div Len(ctx.week)) + e.d
           slotTime == (Truncate(ctx.scheduledAt + i * Day, Day) - ctx.tzOffset)
                         + e.h * Hour + e.m * Minute
           r == ReserveSlot(slots, slotTime, ctx.key)
       IN IF i >= SearchDays
          THEN [ok |-> FALSE, t |-> 0, slots |-> slots]
          ELSE IF r.reserved
               THEN [ok |-> TRUE, t |-> slotTime, slots |-> r.slots]
               ELSE SlotSearchTakesPast(slots, ctx, k + 1)

\* for i := 0; i < 365; i++ { for _, slotStr := range daySlots { ... } }: the
\* k-th slot the loops visit (k from 0) is entry k mod n of the n slots of a
\* week, on day i = 7 * (k div n) + d; a slot time before now is passed over
\* without a reservation, and the search ends when i reaches 365
RECURSIVE SlotSearch(_, _, _)
SlotSearch(slots, ctx, k) ==
  IF ctx.week = <<>>
  THEN [ok |-> FALSE, t |-> 0, slots |-> slots]
  ELSE LET e == ctx.week[(k % Len(ctx.week)) + 1]
           i == 7 * (k \div Len(ctx.week)) + e.d
           slotTime == (Truncate(ctx.scheduledAt + i * Day, Day) - ctx.tzOffset)
                         + e.h * Hour + e.m * Minute
           r == ReserveSlot(slots, slotTime, ctx.key)
       IN IF i >= SearchDays
          THEN [ok |-> FALSE, t |-> 0, slots |-> slots]
          ELSE IF slotTime >= ctx.now /\ r.reserved
               THEN [ok |-> TRUE, t |-> slotTime, slots |-> r.slots]
               ELSE SlotSearch(slots, ctx, k + 1)

\* Scheduler.findNextAvailableSlot
FindNextAvailableSlot(slots, cfg, destination, scheduledAt, now) ==
  LET slotsByDay == SlotsByDay(cfg, destination)
  IN IF ~cfg.tzOk
     THEN [ok |-> FALSE, t |-> 0, slots |-> slots]
     ELSE IF DOMAIN slotsByDay = {}
          THEN [ok |-> TRUE, t |-> scheduledAt, slots |-> slots]
          ELSE SlotSearch(slots,
                          [week |-> WeekSlots(slotsByDay, scheduledAt),
                           tzOffset |-> cfg.tzOffset,
                           key |-> <<destination.type, destination.to[1]>>,
                           scheduledAt |-> scheduledAt, now |-> now], 0)

\* the idiom of every branch: a midnight-aligned time goes through the slot
\* engine, any other time is kept
SlotIfMidnight(slots, cfg, destination, t, now) ==
  IF IsMidnight(t)
  THEN FindNextAvailableSlot(slots, cfg, destination, t, now)
  ELSE [ok |-> TRUE, t |-> t, slots |-> slots]

----------------------------------------------------------------------------
(* Scheduler.Expand *)

NewCallAllDestinations(def, id, scheduledAt, destination, kind, occurrence) ==
  [id |-> id,
   campaign |-> [id |-> def.campaign.id,
                 name |-> IF def.campaign.name = "" THEN "announcements" ELSE def.campaign.name],
   author |-> def.author,
   renders |-> def.renders,
   scheduledAt |-> scheduledAt,
   destinations |-> def.destinations,
   defID |-> def.id, kind |-> kind, occurrence |-> occurrence]

\* createCallFromDefinition plus the fields each branch sets; kind and
\* occurrence are kept for the properties only (the Go struct has neither)
NewCall(def, id, scheduledAt, destination, kind, occurrence) ==
  [id |-> id,
   campaign |-> [id |-> def.campaign.id,
                 name |-> IF def.campaign.name = "" THEN "announcements" ELSE def.campaign.name],
   author |-> def.author,
   renders |-> def.renders,
   scheduledAt |-> scheduledAt,
   destinations |-> <<destination>>,
   defID |-> def.id, kind |-> kind, occurrence |-> occurrence]

ScheduledAtID(def, trigger, destination) ==
  <<def.id, "scheduled_at", ToString(RFC3339(trigger.scheduledAt)), destination.type, destination.to[1]>>

CronID(def, trigger, t, destination) ==
  <<def.id, "cron", trigger.cron, destination.type, destination.to[1]>>

RRuleID(def, trigger, occurrence, destination) ==
  <<def.id, "rrule", trigger.rrule, ToString(RFC3339(occurrence)), destination.type, destination.to[1]>>

SequenceID(def, trigger, event, destination) ==
  <<def.id, "sequence", trigger.sequence, ToString(RFC3339(event.startTime)), destination.type, destination.to[1]>>
ScheduledAtBranchEmitsOnError(acc, x, now, cfg) ==
  IF ~Has(x.trigger, "scheduledAt")
  THEN [acc |-> acc, cont |-> TRUE]
  ELSE LET r == SlotIfMidnight(acc.slots, cfg, x.destination, x.trigger.scheduledAt, now)
           c == NewCall(x.def, ScheduledAtID(x.def, x.trigger, x.destination),
                        IF r.ok THEN r.t ELSE x.trigger.scheduledAt,
                        x.destination, "scheduled_at", x.trigger.scheduledAt)
       IN [acc |-> [calls |-> Append(acc.calls, c), slots |-> r.slots], cont |-> TRUE]

\* each branch returns the grown accumulator and cont = FALSE when the code
\* hits a `continue` of the destination loop (the later branches are skipped)
ScheduledAtBranch(acc, x, now, cfg) ==
  IF ~Has(x.trigger, "scheduledAt")
  THEN [acc |-> acc, cont |-> TRUE]
  ELSE LET r == SlotIfMidnight(acc.slots, cfg, x.destination, x.trigger.scheduledAt, now)
           c == NewCall(x.def, ScheduledAtID(x.def, x.trigger, x.destination), r.t,
                        x.destination, "scheduled_at", x.trigger.scheduledAt)
       IN IF ~r.ok
          THEN [acc |-> acc, cont |-> FALSE]
          ELSE [acc |-> [calls |-> Append(acc.calls, c), slots |-> r.slots], cont |-> TRUE]

CronInWindowOneMore(t, endTime) == ~(t > endTime + Minute)

CronInWindowHalfOpen(t, endTime) == t < endTime

\* the condition of the cron loop: !t.After(endTime)
CronInWindow(t, endTime) == ~(t > endTime)

\* the body of `for t := schedule.Next(startTime - 1s); !t.After(endTime); t = schedule.Next(t)`
RECURSIVE CronLoop(_, _, _, _, _, _)
CronLoop(acc, x, t, endTime, now, cfg) ==
  IF ~CronInWindow(t, endTime)
  THEN acc
  ELSE LET effectiveScheduledAt == Truncate(t, Minute)
           r == SlotIfMidnight(acc.slots, cfg, x.destination, effectiveScheduledAt, now)
           c == NewCall(x.def, CronID(x.def, x.trigger, t, x.destination), r.t,
                        x.destination, "cron", effectiveScheduledAt)
           next == CronNext(x.trigger.cron, t)
       IN IF ~r.ok
          THEN CronLoop(acc, x, next, endTime, now, cfg)
          ELSE CronLoop([calls |-> Append(acc.calls, c), slots |-> r.slots],
                        x, next, endTime, now, cfg)

CronBranch(acc, x, now, before, after, cfg) ==
  IF ~Has(x.trigger, "cron")
  THEN [acc |-> acc, cont |-> TRUE]
  ELSE IF ~CronTable[x.trigger.cron].ok
       THEN [acc |-> acc, cont |-> FALSE]
       ELSE LET startTime == now - before
                endTime == now + after
            IN [acc |-> CronLoop(acc, x, CronNext(x.trigger.cron, startTime - Second),
                                 endTime, now, cfg),
                cont |-> TRUE]

\* rOption.Dtstart as the rrule branch sets it
RRuleDtstart(trigger, now) ==
  IF Has(trigger, "dstart")
  THEN LET d == DStartTable[trigger.dstart]
       IN IF d.hasTz /\ d.tzOk THEN d.local - d.tzOffset ELSE d.local
  ELSE IF RRuleTable[trigger.rrule].hasTime
       THEN now
       ELSE Truncate(now, Day)

\* rule.Between(startTime, endTime, true): the occurrences of the rule in
\* the closed interval, ascending
RECURSIVE Ascending(_, _, _)
Ascending(t, period, endTime) ==
  IF t > endTime THEN <<>> ELSE <<t>> \o Ascending(t + period, period, endTime)

\* the least instant >= lo that is congruent to first modulo period and not
\* before first
FirstAtOrAfter(first, period, lo) ==
  IF lo <= first THEN first
  ELSE LET r == (lo - first) % period
       IN IF r = 0 THEN lo ELSE lo + (period - r)

RRuleBetween(trigger, dtstart, startTime, endTime) ==
  LET rule == RRuleTable[trigger.rrule]
      d == Truncate(dtstart, Second)
      first == IF rule.hasTime
               THEN FirstAtOrAfter(rule.at, Day, d)
               ELSE d
  IN Ascending(FirstAtOrAfter(first, rule.period, startTime), rule.period, endTime)

RECURSIVE RRuleLoop(_, _, _, _, _)
RRuleLoop(acc, x, occurrences, now, cfg) ==
  IF occurrences = <<>>
  THEN acc
  ELSE LET occurrence == Head(occurrences)
           r == SlotIfMidnight(acc.slots, cfg, x.destination, occurrence, now)
           c == NewCall(x.def, RRuleID(x.def, x.trigger, occurrence, x.destination), r.t,
                        x.destination, "rrule", occurrence)
       IN IF ~r.ok
          THEN RRuleLoop(acc, x, Tail(occurrences), now, cfg)
          ELSE RRuleLoop([calls |-> Append(acc.calls, c), slots |-> r.slots],
                         x, Tail(occurrences), now, cfg)

RRuleBranchSkipsBadZone(acc, x, now, before, after, cfg) ==
  IF ~Has(x.trigger, "rrule")
  THEN [acc |-> acc, cont |-> ~Has(x.trigger, "dstart")]
  ELSE IF ~RRuleTable[x.trigger.rrule].ok
       THEN [acc |-> acc, cont |-> FALSE]
       ELSE IF Has(x.trigger, "dstart")
               /\ (~DStartTable[x.trigger.dstart].parseOk \/ ~DStartTable[x.trigger.dstart].tzOk)
            THEN [acc |-> acc, cont |-> FALSE]
            ELSE [acc |-> RRuleLoop(acc, x,
                                    RRuleBetween(x.trigger, RRuleDtstart(x.trigger, now),
                                                 now - before, now + after),
                                    now, cfg),
                  cont |-> TRUE]

RRuleBranch(acc, x, now, before, after, cfg) ==
  IF ~Has(x.trigger, "rrule")
  THEN [acc |-> acc, cont |-> ~Has(x.trigger, "dstart")]
  ELSE IF ~RRuleTable[x.trigger.rrule].ok
       THEN [acc |-> acc, cont |-> FALSE]
       ELSE IF Has(x.trigger, "dstart") /\ ~DStartTable[x.trigger.dstart].parseOk
            THEN [acc |-> acc, cont |-> FALSE]
            ELSE [acc |-> RRuleLoop(acc, x,
                                    RRuleBetween(x.trigger, RRuleDtstart(x.trigger, now),
                                                 now - before, now + after),
                                    now, cfg),
                  cont |-> TRUE]

RECURSIVE SequenceLoop(_, _, _)
SequenceLoop(acc, x, events) ==
  IF events = <<>>
  THEN acc
  ELSE LET event == Head(events)
           delta == DeltaTable[x.trigger.delta]
           c == NewCall(x.def, SequenceID(x.def, x.trigger, event, x.destination),
                        event.startTime + delta.d, x.destination, "sequence", event.startTime)
       IN IF ~delta.ok
          THEN SequenceLoop(acc, x, Tail(events))
          ELSE SequenceLoop([calls |-> Append(acc.calls, c), slots |-> acc.slots],
                            x, Tail(events))

SequenceBranch(acc, x) ==
  IF ~(Has(x.trigger, "sequence") /\ Has(x.trigger, "delta"))
  THEN acc
  ELSE SequenceLoop(acc, x, SelectSeq(x.events, LAMBDA e : e.sequence = x.trigger.sequence))

\* the body of the innermost loop for one (call, trigger, destination)
ExpandTuple(acc, x, now, before, after, cfg) ==
  LET r1 == ScheduledAtBranch(acc, x, now, cfg)
      r2 == CronBranch(r1.acc, x, now, before, after, cfg)
      r3 == RRuleBranch(r2.acc, x, now, before, after, cfg)
  IN IF ~r1.cont THEN r1.acc
     ELSE IF ~r2.cont THEN r2.acc
     ELSE IF ~r3.cont THEN r3.acc
     ELSE SequenceBranch(r3.acc, x)

\* the iteration order: source, call, trigger, destination
CallTuples(source, def) ==
  Flatten([ti \in 1..Len(def.triggers) |->
            [di \in 1..Len(def.destinations) |->
               [events |-> source.events, def |-> def,
                trigger |-> def.triggers[ti], destination |-> def.destinations[di]]]])

SourceTuples(source) ==
  Flatten([ci \in 1..Len(source.calls) |-> CallTuples(source, source.calls[ci])])

AllTuples(sources) ==
  Flatten([si \in 1..Len(sources) |-> SourceTuples(sources[si])])

RECURSIVE ExpandLoopAborting(_, _, _, _, _, _)
ExpandLoopAborting(acc, tuples, now, before, after, cfg) ==
  IF tuples = <<>>
  THEN acc
  ELSE LET x == Head(tuples)
           r1 == ScheduledAtBranch(acc, x, now, cfg)
           r2 == CronBranch(r1.acc, x, now, before, after, cfg)
           r3 == RRuleBranch(r2.acc, x, now, before, after, cfg)
       IN IF ~r1.cont \/ ~r2.cont \/ ~r3.cont
          THEN acc
          ELSE ExpandLoopAborting(ExpandTuple(acc, x, now, before, after, cfg),
                                  Tail(tuples), now, before, after, cfg)

RECURSIVE ExpandLoop(_, _, _, _, _, _)
ExpandLoop(acc, tuples, now, before, after, cfg) ==
  IF tuples = <<>>
  THEN acc
  ELSE ExpandLoop(ExpandTuple(acc, Head(tuples), now, before, after, cfg),
                  Tail(tuples), now, before, after, cfg)

ClearAllSlotsKeeps(slots) == slots

\* Store.ClearAllSlots: the bucket is deleted and created again
ClearAllSlots(slots) == <<>>

\* Expand on a store whose slot bucket holds stored: ClearAllSlots, then the
\* loops; the result is the expanded calls and the reservations left
ExpandOn(stored, sources, now, before, after, cfg) ==
  ExpandLoop([calls |-> <<>>, slots |-> ClearAllSlots(stored)],
             AllTuples(sources), now, before, after, cfg)

\* Expand on a store without reservations
Expand(sources, now, before, after, cfg) ==
  ExpandOn(<<>>, sources, now, before, after, cfg)

----------------------------------------------------------------------------
(* The sent-message store (bbolt backend) *)

\* Store.generateID: strings.Join({campaignID, callID, destType, destination}, "@")
GenerateID(campaignID, callID, destType, destination) ==
  <<campaignID, callID, destType, destination>>

BlockingStatusesWithFailed == {"sent", "deleted", "failed"}

\* the statuses for which Store.HasBeenSent answers true
BlockingStatuses == {"sent", "deleted"}

\* Store.HasBeenSent
HasBeenSent(sent, campaignID, callID, destType, destination) ==
  LET id == GenerateID(campaignID, callID, destType, destination)
  IN id \in DOMAIN sent /\ sent[id].status \in BlockingStatuses

\* Store.AddSentMessage: Put under the generated id, whatever is there
AddSentMessage(sent, campaignID, callID, sm) ==
  LET id == GenerateID(campaignID, callID, sm.type, sm.destination)
  IN [k \in DOMAIN sent \cup {id} |-> IF k = id THEN sm ELSE sent[k]]

\* Store.DeleteSentMessage: the record stays, its status becomes deleted
DeleteSentMessage(sent, id) ==
  [sent EXCEPT ![id].status = "deleted"]

\* Store.AddScheduledCall: Put under call.ID
AddScheduledCall(scheduled, call) ==
  [k \in DOMAIN scheduled \cup {call.id} |-> IF k = call.id THEN call ELSE scheduled[k]]

\* Store.ClearScheduledCalls
ClearScheduledCalls(scheduled) == <<>>

CanOpenAlways(holders, readOnly) == TRUE

\* bbolt.Open at newStore: the database file is locked exclusively by a
\* read-write store and shared by read-only stores, and Open waits for the lock
CanOpen(holders, readOnly) ==
  IF readOnly THEN \A h \in holders : h.readOnly ELSE holders = {}

DeleteScheduledCallNoop(scheduled, id) == scheduled

\* Store.DeleteScheduledCall
DeleteScheduledCall(scheduled, id) ==
  [k \in DOMAIN scheduled \ {id} |-> scheduled[k]]

\* Store.ListScheduledCalls, as the set of the keys it iterates over
ListScheduledCalls(scheduled) == DOMAIN scheduled

StatusOf(sent, id) == IF id \in DOMAIN sent THEN sent[id].status ELSE "none"

CountOf(f, k) == IF k \in DOMAIN f THEN f[k] ELSE 0

Bump(f, k) == [x \in DOMAIN f \cup {k} |-> IF x = k THEN CountOf(f, k) + 1 ELSE f[x]]

----------------------------------------------------------------------------
(* Configuration and the source documents of the worker scenario *)

MaxMinutes == 5
MaxSuccesses == 2

\* 1970-01-04 (a Sunday) 08:00 UTC
StartNow == 3 * Day + 8 * Hour

\* worker.lookback_period, worker.calculation.before, worker.calculation.after
LookbackPeriod == 2 * Minute
CalculationBefore == 3 * Minute
CalculationAfter == 2 * Minute

NoSlots == [tzOk |-> TRUE, tzOffset |-> 0, slots |-> <<>>]

Campaign == [id |-> "camp", name |-> ""]

CallA ==
  [id |-> "a", campaign |-> Campaign, author |-> "me@x.io", renders |-> TRUE,
   destinations |-> <<[type |-> "slack", to |-> <<"#general">>]>>,
   triggers |-> <<[scheduledAt |-> StartNow + Minute]>>]

CallB ==
  [id |-> "b", campaign |-> Campaign, author |-> "", renders |-> TRUE,
   destinations |-> <<[type |-> "email", to |-> <<"u@x.io">>]>>,
   triggers |-> <<[sequence |-> "launch", delta |-> "1m"],
                  [sequence |-> "launch", delta |-> "4m"]>>]

Launch ==
  [sequence |-> "launch", startTime |-> StartNow,
   destinations |-> <<[type |-> "email", to |-> <<"all@x.io">>]>>]

\* the documents the source URL can serve, by content state (ETag or hash)
Documents ==
  [v \in {"v1", "v2"} |->
     IF v = "v1"
     THEN [calls |-> <<CallA, CallB>>, events |-> <<Launch>>]
     ELSE [calls |-> <<CallB>>, events |-> <<Launch>>]]

URLs == <<"file:///calls.yaml">>

----------------------------------------------------------------------------
(* State *)

VARIABLES
  now,            \* the wall clock
  remote,         \* url -> the content state the URL serves
  knownState,     \* Poller.knownState
  sources,        \* Worker.sources
  queue,          \* the expanded calls the running tick has not processed yet
  ticked,         \* a tick has run at this instant
  sentMessages,   \* bucket sent_messages: id -> SentMessage
  scheduledCalls, \* bucket scheduled_calls: id -> call
  slots,          \* bucket slots: RFC3339(slot) -> reserving key
  dryRun,         \* dispatcher.dry_run
  slotCfg,        \* slots.* and slots.timezone
  last,           \* history: what the last step did
  settled,        \* history: the ids that have had status sent or deleted
  successes,      \* history: id -> number of transport calls that returned success
  notified,       \* history: the ids NotifyAuthor was called for
  ex              \* the arguments and the result of a stand-alone Expand call

vars == <<now, remote, knownState, sources, queue, ticked, sentMessages, scheduledCalls,
          slots, dryRun, slotCfg, last, settled, successes, notified, ex>>

storeVars == <<sentMessages, scheduledCalls, slots>>
historyVars == <<last, settled, successes, notified>>

ExIdle == [phase |-> "idle"]

\* the shape of `last`: the handler that ran; for a processed call the branch
\* taken, the status each recipient had before the step and the ids the
\* transport was called for
Did(op) == [op |-> op, branch |-> "", prior |-> <<>>, called |-> {}]

Init ==
  /\ now = StartNow
  /\ remote = [u \in {URLs[1]} |-> "v1"]
  /\ knownState = <<>>
  /\ sources = <<>>
  /\ queue = <<>>
  /\ ticked = FALSE
  /\ sentMessages = <<>>
  /\ scheduledCalls = <<>>
  /\ slots = <<>>
  /\ dryRun = FALSE
  /\ slotCfg = NoSlots
  /\ last = Did("Init")
  /\ settled = {}
  /\ successes = <<>>
  /\ notified = {}
  /\ ex = ExIdle

----------------------------------------------------------------------------
(* Poller *)

\* p.knownState[url]; a URL the map does not hold reads as ""
KnownStateOf(known, url) == IF url \in DOMAIN known THEN known[url] ELSE ""

\* the state sourcer.Source returns with a content: a document that fails
\* validation ("bad") comes back as (nil, "", nil)
StateOf(content) == IF content = "bad" THEN "" ELSE content

NoChangeNever(known, url, state) == FALSE

\* pollURL: the fetched state is the one the poller holds for the URL
NoChange(known, url, state) == KnownStateOf(known, url) = state

RECURSIVE PollFromForgetsOnError(_, _, _, _)
PollFromForgetsOnError(r, urls, fetched, i) ==
  IF i > Len(urls)
  THEN [known |-> r.known, sources |-> r.sources, from |-> r.from,
        err |-> (r.sources = <<>> /\ r.lastErr)]
  ELSE LET url == urls[i]
           content == fetched[url]
           state == StateOf(content)
           known == [u \in DOMAIN r.known \cup {url} |->
                       IF u = url THEN state ELSE r.known[u]]
           forgotten == [u \in DOMAIN r.known \cup {url} |->
                           IF u = url THEN "" ELSE r.known[u]]
       IN IF content = "err"
          THEN PollFromForgetsOnError([r EXCEPT !.lastErr = TRUE, !.known = forgotten],
                                      urls, fetched, i + 1)
          ELSE IF NoChange(r.known, url, state)
               THEN PollFromForgetsOnError(r, urls, fetched, i + 1)
               ELSE IF content = "bad"
                    THEN PollFromForgetsOnError([r EXCEPT !.known = known], urls, fetched, i + 1)
                    ELSE PollFromForgetsOnError(
                           [r EXCEPT !.known = known,
                                     !.sources = Append(@, Documents[content]),
                                     !.from = Append(@, url)],
                           urls, fetched, i + 1)

\* Poller.Poll over the URLs from index i on; fetched[url] is "err" when
\* sourcer.Source(url) fails and the served content otherwise; `from` lists
\* the URL of each returned source
RECURSIVE PollFrom(_, _, _, _)
PollFrom(r, urls, fetched, i) ==
  IF i > Len(urls)
  THEN [known |-> r.known, sources |-> r.sources, from |-> r.from,
        err |-> (r.sources = <<>> /\ r.lastErr)]
  ELSE LET url == urls[i]
           content == fetched[url]
           state == StateOf(content)
           known == [u \in DOMAIN r.known \cup {url} |->
                       IF u = url THEN state ELSE r.known[u]]
       IN IF content = "err"
          THEN PollFrom([r EXCEPT !.lastErr = TRUE], urls, fetched, i + 1)
          ELSE IF NoChange(r.known, url, state)
               THEN PollFrom(r, urls, fetched, i + 1)
               ELSE IF content = "bad"
                    THEN PollFrom([r EXCEPT !.known = known], urls, fetched, i + 1)
                    ELSE PollFrom([r EXCEPT !.known = known,
                                            !.sources = Append(@, Documents[content]),
                                            !.from = Append(@, url)],
                                  urls, fetched, i + 1)

Poll(known, urls, fetched) ==
  PollFrom([known |-> known, sources |-> <<>>, from |-> <<>>, lastErr |-> FALSE],
           urls, fetched, 1)

\* what a fetch of every URL can return now
Fetches == {f \in [DOMAIN remote -> {"v1", "v2", "err"}] :
              \A u \in DOMAIN remote : f[u] \in {remote[u], "err"}}

----------------------------------------------------------------------------
(* Dispatch of one call *)

SentMessage(call, to, status, timestamp) ==
  [status |-> status, timestamp |-> timestamp, scheduledAt |-> call.scheduledAt,
   type |-> call.destinations[1].type, destination |-> to]

\* the loop of ProcessCall over dest.To from index i on; outcome[i] is what
\* the transport returns for recipient i if it is called: "ok", "err", or
\* "notifyErr" when the message went out and NotifyAuthor then failed
RECURSIVE ProcessCallFrom(_, _, _, _, _)
ProcessCallFrom(st, call, i, outcome, dry) ==
  LET dest == call.destinations[1]
  IN IF i > Len(dest.to)
     THEN st
     ELSE LET to == dest.to[i]
              id == GenerateID(call.campaign.id, call.id, dest.type, to)
              ok == outcome[i] # "err"
              timestamp == IF ok /\ dest.type = "slack" THEN "ts" ELSE ""
              sm == SentMessage(call, to, IF ok THEN "sent" ELSE "failed", timestamp)
          IN IF HasBeenSent(st.sent, call.campaign.id, call.id, dest.type, to)
             THEN ProcessCallFrom(st, call, i + 1, outcome, dry)
             ELSE IF dest.type \notin {"slack", "email"}
                  THEN st
                  ELSE IF ~call.renders
                       THEN ProcessCallFrom(
                              [st EXCEPT !.sent = AddSentMessage(@, call.campaign.id, call.id,
                                                    SentMessage(call, to, "failed", ""))],
                              call, i + 1, outcome, dry)
                       ELSE IF dry
                            THEN ProcessCallFrom(st, call, i + 1, outcome, dry)
                            ELSE ProcessCallFrom(
                                   [sent |-> AddSentMessage(st.sent, call.campaign.id, call.id, sm),
                                    called |-> st.called \cup {id},
                                    successes |-> IF ok THEN Bump(st.successes, id)
                                                  ELSE st.successes,
                                    notified |-> IF ok /\ dest.type = "slack" /\ call.author # ""
                                                 THEN st.notified \cup {id} ELSE st.notified],
                                   call, i + 1, outcome, dry)

ProcessCallRendersAnyway(st, call, outcome, dry) ==
  IF Len(call.destinations[1].to) = 0 THEN st
  ELSE ProcessCallFrom(st, [call EXCEPT !.renders = TRUE], 1, outcome, dry)

ProcessCallFailsOnNotifyError(st, call, outcome, dry) ==
  IF Len(call.destinations[1].to) = 0 THEN st
  ELSE ProcessCallFrom(st, call, 1,
                       [i \in DOMAIN outcome |->
                          IF outcome[i] = "notifyErr" THEN "err" ELSE outcome[i]], dry)

ProcessCallIgnoresDryRun(st, call, outcome, dry) ==
  IF Len(call.destinations[1].to) = 0 THEN st
  ELSE ProcessCallFrom(st, call, 1, outcome, FALSE)

\* ProcessCall
ProcessCall(st, call, outcome, dry) ==
  IF Len(call.destinations[1].to) = 0 THEN st
  ELSE ProcessCallFrom(st, call, 1, outcome, dry)

IsFutureNever(call, t) == FALSE

\* the guards of Worker.processCall
IsFuture(call, t) == t < call.scheduledAt

OutsideLookbackInverted(call, t) == call.scheduledAt > t - LookbackPeriod

OutsideLookback(call, t) == call.scheduledAt < t - LookbackPeriod

\* Worker.processCall: future calls are left alone, calls older than the
\* lookback period are recorded as failed for the first recipient, the
\* others are dispatched
WorkerProcessCall(st, call, t, outcome, dry) ==
  IF IsFuture(call, t)
  THEN st
  ELSE IF OutsideLookback(call, t)
       THEN [st EXCEPT !.sent = AddSentMessage(@, call.campaign.id, call.id,
                                  SentMessage(call, call.destinations[1].to[1], "failed", ""))]
       ELSE ProcessCall(st, call, outcome, dry)

----------------------------------------------------------------------------
(* The worker loop *)

LoopIdleAlways == TRUE

\* the select loop of Worker.Run takes the next ticker or signal only when
\* the handler it called has returned
LoopIdle == queue = <<>>

\* Worker.RefreshSources
RefreshSources ==
  /\ LoopIdle
  /\ \E fetched \in Fetches :
       LET r == Poll(knownState, URLs, fetched)
       IN /\ knownState' = r.known
          /\ sources' = IF r.err THEN sources ELSE r.sources
  /\ last' = Did("RefreshSources")
  /\ UNCHANGED <<now, remote, queue, ticked, storeVars, dryRun, slotCfg, settled, successes, notified, ex>>

\* Worker.ProcessMessages up to its loop: expand the loaded sources with the
\* configured window (the calls of Documents carry scheduled_at and sequence
\* triggers with one destination each, which no window limits)
TickStart ==
  /\ LoopIdle
  /\ ~ticked
  /\ LET r == ExpandOn(slots, sources, now, CalculationBefore, CalculationAfter, slotCfg)
     IN /\ queue' = r.calls
        /\ slots' = r.slots
  /\ ticked' = TRUE
  /\ last' = Did("TickStart")
  /\ UNCHANGED <<now, remote, knownState, sources, sentMessages, scheduledCalls,
                 dryRun, slotCfg, settled, successes, notified, ex>>

\* the ids of the sent-message records of a call's recipients
RecipientIDs(call) ==
  {GenerateID(call.campaign.id, call.id, call.destinations[1].type, call.destinations[1].to[i]) :
     i \in 1..Len(call.destinations[1].to)}

Settled(sent) == {id \in DOMAIN sent : sent[id].status \in {"sent", "deleted"}}

\* one iteration of the loop of Worker.ProcessMessages
ProcessCallStep ==
  /\ queue # <<>>
  /\ LET call == Head(queue)
     IN \E outcome \in [1..Len(call.destinations[1].to) -> {"ok", "err"}] :
          LET st == WorkerProcessCall([sent |-> sentMessages, called |-> {},
                                       successes |-> successes, notified |-> notified],
                                      call, now, outcome, dryRun)
          IN /\ \A k \in DOMAIN st.successes : st.successes[k] <= MaxSuccesses
             /\ sentMessages' = st.sent
             /\ successes' = st.successes
             /\ notified' = st.notified
             /\ settled' = settled \cup Settled(st.sent)
             /\ last' = [op |-> "ProcessCall",
                         branch |-> IF IsFuture(call, now) THEN "future"
                                    ELSE IF OutsideLookback(call, now) THEN "old"
                                    ELSE "dispatch",
                         prior |-> [id \in RecipientIDs(call) |-> StatusOf(sentMessages, id)],
                         called |-> st.called]
  /\ queue' = Tail(queue)
  /\ UNCHANGED <<now, remote, knownState, sources, ticked, scheduledCalls, slots,
                 dryRun, slotCfg, ex>>

\* a minute passes between two ticks
AdvanceTime ==
  /\ queue = <<>>
  /\ now < StartNow + MaxMinutes * Minute
  /\ now' = now + Minute
  /\ ticked' = FALSE
  /\ last' = Did("AdvanceTime")
  /\ UNCHANGED <<remote, knownState, sources, queue, storeVars, dryRun, slotCfg,
                 settled, successes, notified, ex>>

\* the author of a source document publishes another version
EditSource ==
  /\ \E u \in DOMAIN remote, v \in DOMAIN Documents :
       /\ v # remote[u]
       /\ remote' = [remote EXCEPT ![u] = v]
  /\ last' = Did("EditSource")
  /\ UNCHANGED <<now, knownState, sources, queue, ticked, storeVars, dryRun, slotCfg,
                 settled, successes, notified, ex>>

----------------------------------------------------------------------------
(* Operator commands; they open the store themselves, so they run between *)
(* the ticks of the worker                                                *)

RECURSIVE AddScheduledCalls(_, _)
AddScheduledCalls(scheduled, calls) ==
  IF calls = <<>> THEN scheduled
  ELSE AddScheduledCalls(AddScheduledCall(scheduled, Head(calls)), Tail(calls))

\* Scheduler.RefreshSchedule: clear the schedule, expand, persist every call
RefreshSchedule(stored, srcs, t, before, after, cfg) ==
  LET r == ExpandOn(stored, srcs, t, before, after, cfg)
  IN [scheduled |-> AddScheduledCalls(<<>>, r.calls), slots |-> r.slots]

\* `scheduled refresh`: a fresh poller, then RefreshSchedule
ScheduledRefreshCmd ==
  /\ queue = <<>>
  /\ \E fetched \in Fetches :
       LET p == Poll(<<>>, URLs, fetched)
           r == RefreshSchedule(slots, p.sources, now, CalculationBefore, CalculationAfter, slotCfg)
       IN /\ ~p.err
          /\ scheduledCalls' = r.scheduled
          /\ slots' = r.slots
  /\ last' = Did("ScheduledRefreshCmd")
  /\ UNCHANGED <<now, remote, knownState, sources, queue, ticked, sentMessages,
                 dryRun, slotCfg, settled, successes, notified, ex>>

\* the recipients of a call, destination by destination
Recipients(call) ==
  Flatten([d \in 1..Len(call.destinations) |->
            [i \in 1..Len(call.destinations[d].to) |->
               [type |-> call.destinations[d].type, to |-> call.destinations[d].to[i]]]])

\* the loop of `scheduled skip`: it stops at the first recipient the call
\* has been sent to, after recording the recipients before it
RECURSIVE SkipFrom(_, _, _)
SkipFrom(sent, call, rs) ==
  IF rs = <<>> THEN sent
  ELSE IF HasBeenSent(sent, call.campaign.id, call.id, Head(rs).type, Head(rs).to)
       THEN sent
       ELSE SkipFrom(AddSentMessage(sent, call.campaign.id, call.id,
                                    [status |-> "skipped", timestamp |-> "",
                                     scheduledAt |-> call.scheduledAt,
                                     type |-> Head(rs).type, destination |-> Head(rs).to]),
                     call, Tail(rs))

\* `scheduled skip <call-id>`
ScheduledSkipCmd ==
  /\ queue = <<>>
  /\ \E callID \in DOMAIN scheduledCalls :
       sentMessages' = SkipFrom(sentMessages, scheduledCalls[callID],
                                Recipients(scheduledCalls[callID]))
  /\ last' = Did("ScheduledSkipCmd")
  /\ UNCHANGED <<now, remote, knownState, sources, queue, ticked, scheduledCalls, slots,
                 dryRun, slotCfg, settled, successes, notified, ex>>

\* `sent delete --call-id <id>`, when the Slack deletion (if any) succeeds
SentDeleteCmd ==
  /\ queue = <<>>
  /\ \E id \in DOMAIN sentMessages :
       /\ sentMessages' = DeleteSentMessage(sentMessages, id)
       /\ settled' = settled \cup {id}
  /\ last' = Did("SentDeleteCmd")
  /\ UNCHANGED <<now, remote, knownState, sources, queue, ticked, scheduledCalls, slots,
                 dryRun, slotCfg, successes, notified, ex>>

Next ==
  \/ RefreshSources
  \/ TickStart
  \/ ProcessCallStep
  \/ AdvanceTime
  \/ EditSource
  \/ ScheduledRefreshCmd
  \/ ScheduledSkipCmd
  \/ SentDeleteCmd

Spec == Init /\ [][Next]_vars

----------------------------------------------------------------------------
(* Properties of the dispatch path *)

\* a step that takes the head call off the queue, i.e. one processed call
Processes == queue # <<>> /\ queue' = Tail(queue)

\* the keys of the schedule container: (call, recipient) by destination
ScheduledKeys ==
  {<<c, r>> : c \in {scheduledCalls[k] : k \in DOMAIN scheduledCalls},
             r \in {[type |-> "slack", to |-> "#general"], [type |-> "email", to |-> "u@x.io"]}}

IsRecipientOf(call, r) ==
  \E d \in 1..Len(call.destinations) :
    /\ call.destinations[d].type = r.type
    /\ \E i \in 1..Len(call.destinations[d].to) : call.destinations[d].to[i] = r.to

\* C1: for each (campaignId, callId, destType, recipient) the transport
\* returns success at most once over the whole execution.
C1_AtMostOneSuccess ==
  \A id \in DOMAIN successes : successes[id] <= 1

\* C2: HasBeenSent answers true exactly when the record stored under the key
\* has status sent, deleted or skipped, and false when there is no record or
\* its status is failed.
C2_HasBeenSentIffSentDeletedSkipped ==
  \A k \in ScheduledKeys :
    IsRecipientOf(k[1], k[2]) =>
      LET id == <<k[1].campaign.id, k[1].id, k[2].type, k[2].to>>
      IN HasBeenSent(sentMessages, k[1].campaign.id, k[1].id, k[2].type, k[2].to)
           <=> (id \in DOMAIN sentMessages
                  /\ sentMessages[id].status \in {"sent", "deleted", "skipped"})

\* C3: the status of a record changes only from failed to sent and from sent
\* to deleted; a skipped record is never changed and a sent record is never
\* overwritten with failed.
C3_StatusMonotone ==
  [][\A id \in DOMAIN sentMessages :
       \/ sentMessages'[id].status = sentMessages[id].status
       \/ sentMessages[id].status = "failed" /\ sentMessages'[id].status = "sent"
       \/ sentMessages[id].status = "sent" /\ sentMessages'[id].status = "deleted"]_vars

\* C4: a record with status failed does not block its call: a tick that
\* reaches the call while it is due calls the transport for it again, and
\* when that call succeeds the record's status becomes sent.
C4_FailedIsRetried ==
  [][Processes =>
       LET call == Head(queue)
           dest == call.destinations[1]
       IN \A i \in 1..Len(dest.to) :
            LET id == <<call.campaign.id, call.id, dest.type, dest.to[i]>>
            IN (/\ id \in DOMAIN sentMessages
                /\ sentMessages[id].status = "failed"
                /\ call.scheduledAt <= now
                /\ call.scheduledAt >= now - LookbackPeriod
                /\ call.renders
                /\ ~dryRun)
               => /\ id \in last'.called
                  /\ CountOf(successes', id) > CountOf(successes, id)
                       => sentMessages'[id].status = "sent"
                  /\ CountOf(successes', id) = CountOf(successes, id)
                       => sentMessages'[id].status = "failed"]_vars

\* a due call whose record was failed has just been sent again, with success
C4_Witness ==
  /\ last.op = "ProcessCall"
  /\ last.branch = "dispatch"
  /\ \E id \in DOMAIN last.prior :
       /\ last.prior[id] = "failed"
       /\ id \in last.called
       /\ sentMessages[id].status = "sent"

\* C5: once the record of a key has had status sent or deleted, no later
\* tick calls the transport for that key.
C5_SettledNeverResent ==
  [][\A id \in settled : id \notin last'.called]_vars

\* C6: once `scheduled skip` has recorded status skipped for a destination of
\* a scheduled call, HasBeenSent is true for it and no later tick calls the
\* transport for it.
C6_SkippedBlocks ==
  [][\A k \in ScheduledKeys :
       LET id == <<k[1].campaign.id, k[1].id, k[2].type, k[2].to>>
       IN (id \in DOMAIN sentMessages /\ sentMessages[id].status = "skipped")
            => /\ HasBeenSent(sentMessages, k[1].campaign.id, k[1].id, k[2].type, k[2].to)
               /\ id \notin last'.called]_vars

\* C7: a call scheduled earlier than now minus the lookback period is not
\* passed to the transport; the tick records status failed for it.
C7_OldCallNotTransported ==
  [][(Processes /\ Head(queue).scheduledAt < now - LookbackPeriod) =>
       LET call == Head(queue)
           dest == call.destinations[1]
           id == <<call.campaign.id, call.id, dest.type, dest.to[1]>>
       IN /\ last'.called = {}
          /\ successes' = successes
          /\ id \in DOMAIN sentMessages'
          /\ sentMessages'[id].status = "failed"]_vars

\* a tick has just recorded failed for a call older than the lookback period
C7_Witness ==
  /\ last.op = "ProcessCall"
  /\ last.branch = "old"
  /\ last.called = {}
  /\ \E id \in DOMAIN last.prior : sentMessages[id].status = "failed"

----------------------------------------------------------------------------
(* Expand on its own: one call of Scheduler.Expand on drawn arguments *)

MaxOffset == 1
MaxTriggers == 2

\* slots.default with a 09:00 slot on Sunday and on Monday, in UTC
DaySlots ==
  [d \in {"sunday", "monday"} |-> <<[h |-> 9, m |-> 0]>>]
WithSlots == [tzOk |-> TRUE, tzOffset |-> 0, slots |-> [k \in {<<"default", "">>} |-> DaySlots]]

ExTriggers ==
  {[scheduledAt |-> StartNow - 10 * Minute],
   [scheduledAt |-> StartNow + Minute],
   [scheduledAt |-> 4 * Day],
   [cron |-> "* * * * *"],
   [cron |-> "*/2 * * * *"],
   [cron |-> "bad cron"],
   [rrule |-> "FREQ=HOURLY"],
   [rrule |-> "FREQ=HOURLY", dstart |-> "TZID=Europe/Berlin:19700104T090000"],
   [sequence |-> "launch", delta |-> "1m"],
   [sequence |-> "launch", delta |-> "5m"],
   [sequence |-> "launch", delta |-> "bad delta"]}

ExTriggerLists == UNION {[1..n -> ExTriggers] : n \in 1..MaxTriggers}

ExDestinationLists ==
  {<<[type |-> "slack", to |-> <<"#general">>]>>,
   <<[type |-> "slack", to |-> <<"#general">>], [type |-> "email", to |-> <<"u@x.io", "all@x.io">>]>>}

ExSources ==
  {<<[calls |-> <<[id |-> "c", campaign |-> Campaign, author |-> "", renders |-> TRUE,
                   destinations |-> ds, triggers |-> ts]>>,
      events |-> <<Launch>>]>> : ds \in ExDestinationLists, ts \in ExTriggerLists}

ExInputs ==
  [phase : {"input"},
   now : {StartNow + k : k \in 0..MaxOffset},
   before : {0, Minute, 3 * Minute},
   after : {Minute, 2 * Minute},
   sources : ExSources,
   cfg : {NoSlots, WithSlots},
   calls : {<<>>},
   calls2 : {<<>>},
   slots : {<<>>}]

ExpandInit ==
  /\ now = StartNow
  /\ remote = [u \in {URLs[1]} |-> "v1"]
  /\ knownState = <<>>
  /\ sources = <<>>
  /\ queue = <<>>
  /\ ticked = FALSE
  /\ sentMessages = <<>>
  /\ scheduledCalls = <<>>
  /\ slots = <<>>
  /\ dryRun = FALSE
  /\ slotCfg = NoSlots
  /\ last = Did("Init")
  /\ settled = {}
  /\ successes = <<>>
  /\ notified = {}
  /\ ex \in ExInputs

\* the first expansion, on a store without reservations
ExpandCall ==
  /\ ex.phase = "input"
  /\ LET r == Expand(ex.sources, ex.now, ex.before, ex.after, ex.cfg)
     IN ex' = [ex EXCEPT !.phase = "done", !.calls = r.calls, !.slots = r.slots]
  /\ UNCHANGED <<now, remote, knownState, sources, queue, ticked, sentMessages,
                 scheduledCalls, slots, dryRun, slotCfg, last, settled, successes, notified>>

\* a second expansion of the same arguments, on the store the first one left
ExpandAgain ==
  /\ ex.phase = "done"
  /\ LET r == ExpandOn(ex.slots, ex.sources, ex.now, ex.before, ex.after, ex.cfg)
     IN ex' = [ex EXCEPT !.phase = "again", !.calls2 = r.calls, !.slots = r.slots]
  /\ UNCHANGED <<now, remote, knownState, sources, queue, ticked, sentMessages,
                 scheduledCalls, slots, dryRun, slotCfg, last, settled, successes, notified>>

ExpandNext ==
  \/ ExpandCall
  \/ ExpandAgain

ExpandSpec == ExpandInit /\ [][ExpandNext]_vars

ExDone == ex.phase \in {"done", "again"}

\* t is a fire time of the cron expression e
IsFire(e, t) == t % Second = 0 /\ (t - CronTable[e].offset) % CronTable[e].period = 0

\* the expansion holds the instance of the cron trigger of x that fires at t
EmitsCronAt(x, t) ==
  \E i \in 1..Len(ex.calls) :
    /\ ex.calls[i].kind = "cron"
    /\ ex.calls[i].defID = x.def.id
    /\ ex.calls[i].destinations = <<x.destination>>
    /\ ex.calls[i].occurrence = t
    /\ ex.calls[i].scheduledAt = t

\* C8 as stated: every emitted instance of every trigger kind has
\* scheduledAt in the half-open window [now - before, now + after).
C8_AllInHalfOpenWindow ==
  ExDone => \A i \in 1..Len(ex.calls) :
              /\ ex.calls[i].scheduledAt >= ex.now - ex.before
              /\ ex.calls[i].scheduledAt < ex.now + ex.after

\* C8 as amended: every emitted cron or rrule instance whose time the slot
\* engine did not move has scheduledAt in the closed window from now - before
\* (for cron rounded down to the whole second) to now + after.
C8_RecurringInClosedWindow ==
  ExDone => \A i \in 1..Len(ex.calls) :
              LET c == ex.calls[i]
              IN (c.kind \in {"cron", "rrule"} /\ c.scheduledAt = c.occurrence)
                   => /\ c.scheduledAt <= ex.now + ex.after
                      /\ c.kind = "rrule" => c.scheduledAt >= ex.now - ex.before
                      /\ c.kind = "cron" => c.scheduledAt >= Truncate(ex.now - ex.before, Second)

\* an expansion at an instant between two seconds holds a cron instance at
\* the whole second below now - before, an rrule instance and an instance
\* of a scheduled_at trigger that lies before the window
C8_Witness ==
  /\ ExDone
  /\ \E i \in 1..Len(ex.calls) :
       /\ ex.calls[i].kind = "cron"
       /\ ex.calls[i].scheduledAt < ex.now - ex.before
  /\ \E i \in 1..Len(ex.calls) : ex.calls[i].kind = "rrule"

\* C9 as stated: a cron fire time exactly at now + after is not emitted and
\* one exactly at now - before is emitted.
C9_EndExcludedStartIncluded ==
  ExDone => \A x \in {AllTuples(ex.sources)[k] : k \in 1..Len(AllTuples(ex.sources))} :
              (Has(x.trigger, "cron") /\ ~Has(x.trigger, "scheduledAt")
                 /\ CronTable[x.trigger.cron].ok)
                => /\ ~EmitsCronAt(x, ex.now + ex.after)
                   /\ IsFire(x.trigger.cron, ex.now - ex.before)
                        => EmitsCronAt(x, ex.now - ex.before)

\* C9 as amended: a cron fire time exactly at now + after is emitted, and so
\* is one exactly at now - before (both ends of the window are included),
\* for fire times that are not midnight-aligned.
C9_BothEndsIncluded ==
  ExDone => \A x \in {AllTuples(ex.sources)[k] : k \in 1..Len(AllTuples(ex.sources))} :
              (Has(x.trigger, "cron") /\ ~Has(x.trigger, "scheduledAt")
                 /\ CronTable[x.trigger.cron].ok)
                => /\ (IsFire(x.trigger.cron, ex.now + ex.after) /\ ~IsMidnight(ex.now + ex.after))
                        => EmitsCronAt(x, ex.now + ex.after)
                   /\ (IsFire(x.trigger.cron, ex.now - ex.before) /\ ~IsMidnight(ex.now - ex.before))
                        => EmitsCronAt(x, ex.now - ex.before)

\* an expansion with a window of positive length holds the cron instance
\* that fires at now + after and the one that fires at now - before
C9_Witness ==
  /\ ExDone
  /\ ex.before > 0
  /\ ex.after > 0
  /\ \E x \in {AllTuples(ex.sources)[k] : k \in 1..Len(AllTuples(ex.sources))} :
       /\ Has(x.trigger, "cron")
       /\ EmitsCronAt(x, ex.now + ex.after)
       /\ EmitsCronAt(x, ex.now - ex.before)

\* C10: within one expansion two emitted instances that differ in call,
\* trigger, occurrence time or destination have different ids; in particular
\* each occurrence of a cron trigger carries its own id.
C10_IdsUnique ==
  ExDone => \A i, j \in 1..Len(ex.calls) :
              (\/ ex.calls[i].defID # ex.calls[j].defID
               \/ ex.calls[i].kind # ex.calls[j].kind
               \/ ex.calls[i].occurrence # ex.calls[j].occurrence
               \/ ex.calls[i].scheduledAt # ex.calls[j].scheduledAt
               \/ ex.calls[i].destinations # ex.calls[j].destinations)
                => ex.calls[i].id # ex.calls[j].id

----------------------------------------------------------------------------
(* Expand under slot configurations: midnight-aligned triggers *)

At(h, m) == [h |-> h, m |-> m]

\* slots.default, slots.slack.default and slots.slack._general all set
HierarchySlots ==
  [tzOk |-> TRUE, tzOffset |-> 0,
   slots |-> [k \in {<<"default", "">>, <<"slack", "default">>, <<"slack", "_general">>} |->
                CASE k = <<"default", "">> ->
                       [d \in {"sunday", "monday"} |->
                          IF d = "sunday" THEN <<At(9, 0), At(16, 0)>> ELSE <<At(9, 0)>>]
                  [] k = <<"slack", "default">> ->
                       [d \in {"sunday", "monday"} |->
                          IF d = "sunday" THEN <<At(11, 0), At(17, 0)>> ELSE <<At(11, 0)>>]
                  [] OTHER ->
                       [d \in {"sunday", "monday"} |-> <<At(13, 0)>>]]]

\* slots.default with the later slot of each day declared first
UnsortedSlots ==
  [tzOk |-> TRUE, tzOffset |-> 0,
   slots |-> [k \in {<<"default", "">>} |->
                [d \in {"sunday", "monday"} |-> <<At(16, 0), At(10, 0)>>]]]

\* slots.timezone = Europe/Berlin (one hour east of UTC)
BerlinSlots == [WithSlots EXCEPT !.tzOffset = Hour]

\* slots.timezone names no zone: time.LoadLocation fails
BadZoneSlots == [WithSlots EXCEPT !.tzOk = FALSE]

SlotTriggers ==
  {[scheduledAt |-> 3 * Day],
   [scheduledAt |-> 4 * Day],
   [scheduledAt |-> 11 * Day],
   [scheduledAt |-> StartNow + Minute],
   [cron |-> "0 0 * * *"],
   [rrule |-> "FREQ=DAILY"]}

SlotTriggerLists == UNION {[1..n -> SlotTriggers] : n \in 1..MaxTriggers}

SlotDestinationLists ==
  {<<[type |-> "slack", to |-> <<"#general">>]>>,
   <<[type |-> "slack", to |-> <<"#general">>], [type |-> "slack", to |-> <<"#ops">>]>>,
   <<[type |-> "slack", to |-> <<"#general">>], [type |-> "email", to |-> <<"u@x.io", "all@x.io">>]>>}

SlotSources ==
  {<<[calls |-> <<[id |-> "c", campaign |-> Campaign, author |-> "", renders |-> TRUE,
                   destinations |-> ds, triggers |-> ts]>>,
      events |-> <<Launch>>]>> : ds \in SlotDestinationLists, ts \in SlotTriggerLists}

SlotInputs ==
  [phase : {"input"},
   now : {StartNow + k : k \in 0..MaxOffset},
   before : {Day},
   after : {Day},
   sources : SlotSources,
   cfg : {NoSlots, WithSlots, HierarchySlots, UnsortedSlots, BerlinSlots, BadZoneSlots},
   calls : {<<>>},
   calls2 : {<<>>},
   slots : {<<>>}]

SlotExpandInit ==
  /\ now = StartNow
  /\ remote = [u \in {URLs[1]} |-> "v1"]
  /\ knownState = <<>>
  /\ sources = <<>>
  /\ queue = <<>>
  /\ ticked = FALSE
  /\ sentMessages = <<>>
  /\ scheduledCalls = <<>>
  /\ slots = <<>>
  /\ dryRun = FALSE
  /\ slotCfg = NoSlots
  /\ last = Did("Init")
  /\ settled = {}
  /\ successes = <<>>
  /\ notified = {}
  /\ ex \in SlotInputs

SlotExpandSpec == SlotExpandInit /\ [][ExpandNext]_vars

\* the (id, scheduledAt) pairs of a list of instances
Schedule(calls) == {<<calls[i].id, calls[i].scheduledAt>> : i \in 1..Len(calls)}

\* the instance went through the slot engine with a slot list configured
\* for its destination
SlotAssigned(c) ==
  /\ c.kind # "sequence"
  /\ IsMidnight(c.occurrence)
  /\ \E i \in 1..Len(SlotKeys(c.destinations[1])) :
       SlotKeys(c.destinations[1])[i] \in DOMAIN ex.cfg.slots

\* C11: a second expansion of the same sources, now, before, after and slot
\* configuration emits the same ids with the same scheduledAt for each id
\* (each expansion starts by clearing the slot grid).
C11_SecondExpansionSame ==
  ex.phase = "again" => Schedule(ex.calls2) = Schedule(ex.calls)

\* a second expansion has run over a store in which the first one left
\* reservations, and it holds an instance the slot engine moved
C11_Witness ==
  /\ ex.phase = "again"
  /\ ex.slots # <<>>
  /\ \E i \in 1..Len(ex.calls2) : ex.calls2[i].scheduledAt # ex.calls2[i].occurrence

----------------------------------------------------------------------------
(* Properties of the instances Expand emits *)

ExTuples == {AllTuples(ex.sources)[k] : k \in 1..Len(AllTuples(ex.sources))}

Range(seq) == {seq[i] : i \in 1..Len(seq)}

\* C12 as stated: every emitted instance carries exactly one Destination
\* whose `to` holds exactly one recipient (a destination with k recipients
\* yields k instances).
C12_OneRecipientPerInstance ==
  ExDone => \A i \in 1..Len(ex.calls) :
              /\ Len(ex.calls[i].destinations) = 1
              /\ Len(ex.calls[i].destinations[1].to) = 1

\* C12 as amended: every emitted instance carries exactly one Destination,
\* which is a destination of its call with all of that destination's
\* recipients; a call with k destinations yields k instances per
\* scheduled_at trigger.
C12_OneDestinationPerInstance ==
  ExDone =>
    /\ \A i \in 1..Len(ex.calls) :
         /\ Len(ex.calls[i].destinations) = 1
         /\ \E x \in ExTuples :
              x.def.id = ex.calls[i].defID /\ ex.calls[i].destinations[1] = x.destination
    /\ Cardinality({i \in 1..Len(ex.calls) : ex.calls[i].kind = "scheduled_at"})
         = Cardinality({k \in 1..Len(AllTuples(ex.sources)) :
                          Has(AllTuples(ex.sources)[k].trigger, "scheduledAt")})

\* an expansion of a call with two destinations, one of them with two
\* recipients, holds an instance for that destination with both recipients
C12_Witness ==
  /\ ExDone
  /\ \E i, j \in 1..Len(ex.calls) :
       /\ ex.calls[i].kind = "scheduled_at"
       /\ ex.calls[j].kind = "scheduled_at"
       /\ ex.calls[i].destinations[1].type = "slack"
       /\ ex.calls[j].destinations[1].type = "email"
       /\ Len(ex.calls[j].destinations[1].to) = 2

\* C13: a trigger {sequence, delta} and an event of that sequence yield an
\* instance at the event's start_time + delta, and the event's destinations
\* are merged into the expansion of the call, so that the call is also
\* delivered to them.
C13_SequenceMergesEventDestinations ==
  ExDone =>
    \A x \in ExTuples :
      (Has(x.trigger, "sequence") /\ DeltaTable[x.trigger.delta].ok) =>
        \A e \in {v \in Range(x.events) : v.sequence = x.trigger.sequence} :
          /\ \E i \in 1..Len(ex.calls) :
               /\ ex.calls[i].kind = "sequence"
               /\ ex.calls[i].defID = x.def.id
               /\ ex.calls[i].scheduledAt = e.startTime + DeltaTable[x.trigger.delta].d
               /\ x.destination \in Range(ex.calls[i].destinations)
          /\ \A d \in Range(e.destinations) :
               \E i \in 1..Len(ex.calls) :
                 /\ ex.calls[i].kind = "sequence"
                 /\ ex.calls[i].defID = x.def.id
                 /\ ex.calls[i].scheduledAt = e.startTime + DeltaTable[x.trigger.delta].d
                 /\ d \in Range(ex.calls[i].destinations)

----------------------------------------------------------------------------
(* Properties of the slot grid *)

\* the slot key (destType, recipient) findNextAvailableSlot reserves under
SlotKeyOf(c) == <<c.destinations[1].type, c.destinations[1].to[1]>>

\* C14: within one refresh cycle no slot time is assigned to two emitted
\* instances, whatever their (destType, recipient).
C14_NoSlotTwice ==
  ExDone =>
    \A i, j \in 1..Len(ex.calls) :
      (i # j /\ SlotAssigned(ex.calls[i]) /\ SlotAssigned(ex.calls[j]))
        => ex.calls[i].scheduledAt # ex.calls[j].scheduledAt

\* two instances for different recipients asked for the same midnight and
\* share a slot list; both were moved into it
C14_Witness ==
  /\ ExDone
  /\ \E i, j \in 1..Len(ex.calls) :
       /\ SlotAssigned(ex.calls[i]) /\ SlotAssigned(ex.calls[j])
       /\ SlotKeyOf(ex.calls[i]) # SlotKeyOf(ex.calls[j])
       /\ ex.calls[i].occurrence = ex.calls[j].occurrence
       /\ SlotsByDay(ex.cfg, ex.calls[i].destinations[1])
            = SlotsByDay(ex.cfg, ex.calls[j].destinations[1])
       /\ ex.calls[i].scheduledAt # ex.calls[i].occurrence
       /\ ex.calls[j].scheduledAt # ex.calls[j].occurrence

\* every weekday's slot list is declared in ascending time of day
SlotsAscending(cfg) ==
  \A k \in DOMAIN cfg.slots : \A d \in DOMAIN cfg.slots[k] :
    \A a, b \in 1..Len(cfg.slots[k][d]) :
      a < b => cfg.slots[k][d][a].h * Hour + cfg.slots[k][d][a].m * Minute
                 < cfg.slots[k][d][b].h * Hour + cfg.slots[k][d][b].m * Minute

\* C15 as stated: for slot-assigned instances with the same (destType,
\* recipient), slot times are strictly increasing in emission order.
C15_SlotTimesIncreasing ==
  ExDone =>
    \A i, j \in 1..Len(ex.calls) :
      (/\ i < j
       /\ SlotAssigned(ex.calls[i]) /\ SlotAssigned(ex.calls[j])
       /\ SlotKeyOf(ex.calls[i]) = SlotKeyOf(ex.calls[j]))
        => ex.calls[i].scheduledAt < ex.calls[j].scheduledAt

\* C15 as amended: the same, for instances whose requested midnights are in
\* non-decreasing order of emission and a configuration whose daily slot
\* lists are declared in ascending order.
C15_SlotTimesIncreasingWhenOrdered ==
  (ExDone /\ SlotsAscending(ex.cfg)) =>
    \A i, j \in 1..Len(ex.calls) :
      (/\ i < j
       /\ SlotAssigned(ex.calls[i]) /\ SlotAssigned(ex.calls[j])
       /\ SlotKeyOf(ex.calls[i]) = SlotKeyOf(ex.calls[j])
       /\ ex.calls[i].occurrence <= ex.calls[j].occurrence)
        => ex.calls[i].scheduledAt < ex.calls[j].scheduledAt

\* two instances for one recipient asked for the same midnight; the later
\* one was pushed past the slot of the earlier one
C15_Witness ==
  /\ ExDone /\ SlotsAscending(ex.cfg)
  /\ \E i, j \in 1..Len(ex.calls) :
       /\ i < j
       /\ SlotAssigned(ex.calls[i]) /\ SlotAssigned(ex.calls[j])
       /\ SlotKeyOf(ex.calls[i]) = SlotKeyOf(ex.calls[j])
       /\ ex.calls[i].occurrence = ex.calls[j].occurrence
       /\ ex.calls[i].scheduledAt < ex.calls[j].scheduledAt

\* the time of day and weekday of an instant on the wall clock of slots.timezone
LocalTimeOfDay(t) == (t + ex.cfg.tzOffset) % Day

LocalWeekday(t) == Weekday(t + ex.cfg.tzOffset)

\* an instant that is one of the slots of a per-weekday slot table
IsSlotOf(t, table) ==
  /\ LocalWeekday(t) \in DOMAIN table
  /\ \E a \in 1..Len(table[LocalWeekday(t)]) :
       LocalTimeOfDay(t) = table[LocalWeekday(t)][a].h * Hour + table[LocalWeekday(t)][a].m * Minute

C17_WitnessUnchanged ==
  /\ ExDone
  /\ ex.cfg = NoSlots
  /\ \E i \in 1..Len(ex.calls) :
       IsMidnight(ex.calls[i].occurrence) /\ ex.calls[i].scheduledAt = ex.calls[i].occurrence

----------------------------------------------------------------------------
(* Concurrent reservations: several callers of Store.ReserveSlot and of
   Store.ClearAllSlots on one store. Each call is one db.Update, which holds
   the writer lock of the database from its start to its commit. *)

MaxCallers == 2
MaxClears == 1
MaxReserves == 2

Callers == 1..MaxCallers

\* the call id each caller reserves under
CallerID(c) == <<"call", c>>

ReserveSlotTimes == {3 * Day + 9 * Hour, 3 * Day + 16 * Hour}

NoReturn == [done |-> FALSE, reserved |-> FALSE]

ReserveInit ==
  /\ now = StartNow
  /\ remote = [u \in {URLs[1]} |-> "v1"]
  /\ knownState = <<>>
  /\ sources = <<>>
  /\ queue = <<>>
  /\ ticked = FALSE
  /\ sentMessages = <<>>
  /\ scheduledCalls = <<>>
  /\ slots = <<>>
  /\ dryRun = FALSE
  /\ slotCfg = NoSlots
  /\ last = Did("Init")
  /\ settled = {}
  /\ successes = <<>>
  /\ notified = {}
  /\ ex = [phase |-> "reserve",
           writer |-> 0,                                \* the holder of the writer lock
           pc |-> [c \in Callers |-> "idle"],
           made |-> [c \in Callers |-> 0],              \* the calls each caller has made
           slot |-> [c \in Callers |-> 0],              \* the slotTime argument
           ret |-> [c \in Callers |-> NoReturn],        \* what the last call returned
           prior |-> <<>>,                              \* the bucket before the last commit
           lastc |-> 0,                                 \* the caller of the last commit
           lastSlot |-> 0,                              \* its slotTime argument
           lastReserved |-> FALSE,                      \* what it returned
           wins |-> [t \in ReserveSlotTimes |-> 0],     \* true returns since the last clear
           returns |-> [t \in ReserveSlotTimes |-> 0],  \* returns since the last clear
           clears |-> 0]

reserveRest == <<now, remote, knownState, sources, queue, ticked, sentMessages,
                 scheduledCalls, dryRun, slotCfg, last, settled, successes, notified>>

\* a caller enters ReserveSlot(slotTime, callID): db.Update takes the lock
ReserveBegin(c) ==
  /\ ex.phase = "reserve"
  /\ ex.writer = 0
  /\ ex.pc[c] # "update"
  /\ ex.made[c] < MaxReserves
  /\ \E t \in ReserveSlotTimes :
       ex' = [ex EXCEPT !.writer = c, !.pc[c] = "update", !.slot[c] = t,
                        !.made[c] = @ + 1,
                        !.ret[c] = NoReturn]
  /\ UNCHANGED <<slots, reserveRest>>

\* the body of the transaction runs and commits; the lock is released
ReserveCommit(c) ==
  /\ ex.phase = "reserve"
  /\ ex.writer = c
  /\ ex.pc[c] = "update"
  /\ LET r == ReserveSlot(slots, ex.slot[c], CallerID(c))
     IN /\ slots' = r.slots
        /\ ex' = [ex EXCEPT !.writer = 0, !.pc[c] = "returned",
                            !.ret[c] = [done |-> TRUE, reserved |-> r.reserved],
                            !.prior = slots, !.lastc = c,
                            !.lastSlot = ex.slot[c], !.lastReserved = r.reserved,
                            !.wins[ex.slot[c]] = @ + (IF r.reserved THEN 1 ELSE 0),
                            !.returns[ex.slot[c]] = @ + 1]
  /\ UNCHANGED reserveRest

\* Store.ClearAllSlots, one db.Update of its own
ClearAllSlotsCall ==
  /\ ex.phase = "reserve"
  /\ ex.writer = 0
  /\ ex.clears < MaxClears
  /\ slots' = ClearAllSlots(slots)
  /\ ex' = [ex EXCEPT !.clears = @ + 1, !.lastc = 0, !.prior = <<>>,
                      !.wins = [t \in ReserveSlotTimes |-> 0],
                      !.returns = [t \in ReserveSlotTimes |-> 0]]
  /\ UNCHANGED reserveRest

ReserveNext ==
  \/ \E c \in Callers : ReserveBegin(c)
  \/ \E c \in Callers : ReserveCommit(c)
  \/ ClearAllSlotsCall

ReserveSpec == ReserveInit /\ [][ReserveNext]_vars

\* C16: ReserveSlot returns true and stores the reservation when the slot
\* time has none, returns false and leaves the existing reservation when it
\* has one; among the calls for one slot time between two clears exactly
\* one returns true.
C16_CompareAndSet ==
  ex.phase = "reserve" =>
    /\ ex.lastc # 0 =>
         LET key == RFC3339(ex.lastSlot)
         IN IF key \in DOMAIN ex.prior
            THEN ~ex.lastReserved /\ slots = ex.prior
            ELSE /\ ex.lastReserved
                 /\ slots = ex.prior @@ (key :> CallerID(ex.lastc))
    /\ \A t \in ReserveSlotTimes :
         /\ ex.wins[t] <= 1
         /\ ex.returns[t] >= 1 => ex.wins[t] = 1

\* two callers asked for the same slot time after the last clear: one got
\* true, the other false, and the reservation is the winner's
C16_Witness ==
  /\ ex.phase = "reserve"
  /\ ex.clears >= 1
  /\ \E c, d \in Callers :
       /\ c # d
       /\ ex.pc[c] = "returned" /\ ex.pc[d] = "returned"
       /\ ex.slot[c] = ex.slot[d]
       /\ ex.ret[c].reserved /\ ex.ret[d].done /\ ~ex.ret[d].reserved
       /\ ex.lastc = d
       /\ slots[RFC3339(ex.slot[c])] = CallerID(c)

----------------------------------------------------------------------------
(* The poller on its own: two URLs, polled again and again while the
   documents behind them change, fail to load or fail validation *)

PollURLs == <<"file:///a.yaml", "file:///b.yaml">>

Contents == {"v1", "v2", "bad"}

PollInit ==
  /\ now = StartNow
  /\ remote = [u \in Range(PollURLs) |-> "v1"]
  /\ knownState = <<>>
  /\ sources = <<>>
  /\ queue = <<>>
  /\ ticked = FALSE
  /\ sentMessages = <<>>
  /\ scheduledCalls = <<>>
  /\ slots = <<>>
  /\ dryRun = FALSE
  /\ slotCfg = NoSlots
  /\ last = Did("Init")
  /\ settled = {}
  /\ successes = <<>>
  /\ notified = {}
  /\ ex = [phase |-> "poll",
           polls |-> 0,          \* the polls made so far, counted up to 2
           fetched |-> <<>>,     \* what each URL returned in the last poll
           prior |-> <<>>,       \* knownState before the last poll
           from |-> <<>>,        \* the URLs whose source the last poll returned
           sources |-> <<>>,     \* the sources it returned
           err |-> FALSE,        \* it returned an error
           before |-> <<>>]      \* what each URL returned in the poll before it

pollRest == <<now, sources, queue, ticked, sentMessages, scheduledCalls, slots, dryRun,
              slotCfg, last, settled, successes, notified>>

\* Poller.Poll(urls)
PollCall ==
  /\ ex.phase = "poll"
  /\ \E fetched \in {f \in [Range(PollURLs) -> Contents \cup {"err"}] :
                       \A u \in Range(PollURLs) : f[u] \in {remote[u], "err"}} :
       LET r == Poll(knownState, PollURLs, fetched)
       IN /\ knownState' = r.known
          /\ ex' = [ex EXCEPT !.polls = IF @ < 2 THEN @ + 1 ELSE @,
                              !.fetched = fetched, !.prior = knownState,
                              !.from = r.from, !.sources = r.sources, !.err = r.err,
                              !.before = ex.fetched]
  /\ UNCHANGED <<remote, pollRest>>

\* the document behind a URL is replaced
PollEdit ==
  /\ ex.phase = "poll"
  /\ \E u \in Range(PollURLs), v \in Contents :
       /\ v # remote[u]
       /\ remote' = [remote EXCEPT ![u] = v]
  /\ UNCHANGED <<knownState, ex, pollRest>>

PollNext ==
  \/ PollCall
  \/ PollEdit

PollSpec == PollInit /\ [][PollNext]_vars

\* the URL was fetched and parsed into a source in the last poll, with a
\* state other than the one the poller held for it
Changed(u) ==
  /\ ex.fetched[u] \in DOMAIN Documents
  /\ ex.fetched[u] # (IF u \in DOMAIN ex.prior THEN ex.prior[u] ELSE "")

\* C18: Poll returns exactly the sources whose fetched state differs from
\* the state the poller last saw for the URL; of two polls that fetch the
\* same state of a URL the second omits it.
C18_OnlyChangedSources ==
  (ex.phase = "poll" /\ ex.polls >= 1) =>
    /\ Range(ex.from) = {u \in Range(PollURLs) : Changed(u)}
    /\ Len(ex.from) = Cardinality(Range(ex.from))
    /\ Len(ex.sources) = Len(ex.from)
    /\ \A k \in 1..Len(ex.from) : ex.sources[k] = Documents[ex.fetched[ex.from[k]]]
    /\ ex.polls >= 2 =>
         \A u \in Range(PollURLs) :
           (ex.fetched[u] # "err" /\ ex.before[u] = ex.fetched[u]) => u \notin Range(ex.from)

\* the second of two polls fetched both URLs; one served what it served
\* before and was omitted, the other had changed and was returned
C18_Witness ==
  /\ ex.phase = "poll" /\ ex.polls >= 2
  /\ \E u, w \in Range(PollURLs) :
       /\ ex.before[u] = "v1" /\ ex.fetched[u] = "v1"
       /\ ex.before[w] = "v1" /\ ex.fetched[w] = "v2"
       /\ ex.from = <<w>>

\* C19: Poll returns an error if and only if every URL failed to fetch;
\* when at least one URL is fetched, changed or unchanged, the failures of
\* the others are only logged.
C19_ErrorIffAllFailed ==
  (ex.phase = "poll" /\ ex.polls >= 1) =>
    (ex.err <=> \A u \in Range(PollURLs) : ex.fetched[u] = "err")

----------------------------------------------------------------------------
(* The run loop over the schedule container: a refresh writes the schedule,
   a dispatch tick lists it and works through the listed calls *)

WatchInit ==
  /\ now = StartNow
  /\ remote = [u \in {URLs[1]} |-> "v1"]
  /\ knownState = <<>>
  /\ sources = <<>>
  /\ queue = <<>>
  /\ ticked = FALSE
  /\ sentMessages = <<>>
  /\ scheduledCalls = <<>>
  /\ slots = <<>>
  /\ dryRun \in BOOLEAN
  /\ slotCfg = NoSlots
  /\ last = Did("Init")
  /\ settled = {}
  /\ successes = <<>>
  /\ notified = {}
  /\ ex = [phase |-> "watch",
           ticking |-> FALSE,    \* a dispatch tick is running
           pending |-> {},       \* the listed ids the tick has not reached yet
           attempted |-> {},     \* the ids the tick found due
           op |-> "init",        \* the last step of the loop
           id |-> "",            \* the id of the last step of a tick
           branch |-> "",        \* future, old or dispatch
           prior |-> <<>>]       \* the status each recipient had before the step

watchRest == <<remote, knownState, queue, ticked, dryRun, slotCfg, last, settled>>

\* the refresh path: the sources are polled and the schedule is rewritten
WatchRefresh ==
  /\ ex.phase = "watch"
  /\ ~ex.ticking
  /\ \E v \in DOMAIN Documents :
       LET r == RefreshSchedule(slots, <<Documents[v]>>, now, CalculationBefore,
                                CalculationAfter, slotCfg)
       IN /\ sources' = <<Documents[v]>>
          /\ scheduledCalls' = r.scheduled
          /\ slots' = r.slots
  /\ ex' = [ex EXCEPT !.op = "refresh"]
  /\ UNCHANGED <<now, sentMessages, successes, notified, watchRest>>

\* the dispatch tick lists the schedule
DispatchTickStart ==
  /\ ex.phase = "watch"
  /\ ~ex.ticking
  /\ ex.op \notin {"start", "end"}
  /\ ex' = [ex EXCEPT !.ticking = TRUE, !.pending = ListScheduledCalls(scheduledCalls),
                      !.attempted = {}, !.op = "start"]
  /\ UNCHANGED <<now, sources, sentMessages, scheduledCalls, slots, successes, notified,
                 watchRest>>

\* one listed call: skipped when in the future, recorded as failed and
\* deleted when older than the lookback, dispatched and deleted otherwise
DispatchStep ==
  /\ ex.phase = "watch"
  /\ ex.ticking
  /\ \E id \in ex.pending :
       LET call == scheduledCalls[id]
       IN \E outcome \in [1..Len(call.destinations[1].to) -> {"ok", "err"}] :
            LET st == WorkerProcessCall([sent |-> sentMessages, called |-> {},
                                         successes |-> successes, notified |-> notified],
                                        call, now, outcome, dryRun)
            IN /\ sentMessages' = st.sent
               /\ successes' = st.successes
               /\ notified' = st.notified
               /\ scheduledCalls' = IF IsFuture(call, now) THEN scheduledCalls
                                    ELSE DeleteScheduledCall(scheduledCalls, id)
               /\ ex' = [ex EXCEPT !.pending = @ \ {id},
                                   !.attempted = IF IsFuture(call, now) THEN @ ELSE @ \cup {id},
                                   !.op = "step", !.id = id,
                                   !.prior = [rid \in RecipientIDs(call) |->
                                                StatusOf(sentMessages, rid)],
                                   !.branch = IF IsFuture(call, now) THEN "future"
                                              ELSE IF OutsideLookback(call, now) THEN "old"
                                              ELSE "dispatch"]
  /\ UNCHANGED <<now, sources, slots, watchRest>>

\* the tick has gone through the list
DispatchTickEnd ==
  /\ ex.phase = "watch"
  /\ ex.ticking
  /\ ex.pending = {}
  /\ ex' = [ex EXCEPT !.ticking = FALSE, !.op = "end"]
  /\ UNCHANGED <<now, sources, sentMessages, scheduledCalls, slots, successes, notified,
                 watchRest>>

\* a minute passes between two ticks
WatchAdvance ==
  /\ ex.phase = "watch"
  /\ ~ex.ticking
  /\ now < StartNow + MaxMinutes * Minute
  /\ now' = now + Minute
  /\ ex' = [ex EXCEPT !.op = "advance"]
  /\ UNCHANGED <<sources, sentMessages, scheduledCalls, slots, successes, notified, watchRest>>

WatchNext ==
  \/ WatchRefresh
  \/ DispatchTickStart
  \/ DispatchStep
  \/ DispatchTickEnd
  \/ WatchAdvance

WatchSpec == WatchInit /\ [][WatchNext]_vars

C20_WitnessAlreadySent ==
  /\ ex.phase = "watch"
  /\ ex.op = "step" /\ ex.branch = "dispatch"
  /\ \A rid \in DOMAIN ex.prior : ex.prior[rid] = "sent"
  /\ ex.id \notin DOMAIN scheduledCalls

----------------------------------------------------------------------------
(* `scheduled refresh` next to readers of the schedule: each command is a
   process that opens the store, works on it and closes it. The refresh
   clears the schedule and adds the new calls one transaction at a time. *)

MaxReaders == 2

Readers == 1..MaxReaders

\* the schedule a refresh of a document writes
ScheduleOf(v) ==
  RefreshSchedule(<<>>, <<Documents[v]>>, StartNow, CalculationBefore, CalculationAfter,
                  NoSlots).scheduled

\* the calls of a schedule, in the order of their ids in the listing `order`
RECURSIVE CallsOf(_, _)
CallsOf(scheduled, ids) ==
  IF ids = {} THEN <<>>
  ELSE LET id == CHOOSE k \in ids : TRUE
       IN <<scheduled[id]>> \o CallsOf(scheduled, ids \ {id})

RefreshInit ==
  /\ now = StartNow
  /\ remote = [u \in {URLs[1]} |-> "v1"]
  /\ knownState = <<>>
  /\ sources = <<>>
  /\ queue = <<>>
  /\ ticked = FALSE
  /\ sentMessages = <<>>
  /\ \E s \in {ScheduleOf(v) : v \in DOMAIN Documents} :
       /\ scheduledCalls = s
       /\ ex = [phase |-> "refresh",
                holders |-> {},                          \* the processes holding the file open
                wpc |-> "idle",                          \* the refresh command
                todo |-> <<>>,                           \* the calls it has still to add
                old |-> s,                               \* the schedule before the last refresh
                new |-> s,                               \* the schedule the last refresh writes
                rpc |-> [r \in Readers |-> "idle"],      \* the readers
                seen |-> [r \in Readers |-> <<>>]]       \* what each reader's list returned,
                                                         \* with the old and new schedule then
  /\ slots = <<>>
  /\ dryRun = FALSE
  /\ slotCfg = NoSlots
  /\ last = Did("Init")
  /\ settled = {}
  /\ successes = <<>>
  /\ notified = {}

refreshRest == <<now, remote, knownState, sources, queue, ticked, sentMessages, slots,
                 dryRun, slotCfg, last, settled, successes, notified>>

WriterHolder == [proc |-> 0, readOnly |-> FALSE]

ReaderHolder(r) == [proc |-> r, readOnly |-> TRUE]

\* the refresh command opens the store read-write and expands the sources
RefreshOpen ==
  /\ ex.phase = "refresh"
  /\ ex.wpc = "idle"
  /\ CanOpen(ex.holders, FALSE)
  /\ \E s \in {ScheduleOf(v) : v \in DOMAIN Documents} :
       \E todo \in {CallsOf(s, DOMAIN s)} :
         ex' = [ex EXCEPT !.holders = @ \cup {WriterHolder}, !.wpc = "open",
                          !.old = scheduledCalls, !.new = s, !.todo = todo]
  /\ UNCHANGED <<scheduledCalls, refreshRest>>

\* ClearScheduledCalls, one transaction
RefreshClear ==
  /\ ex.phase = "refresh"
  /\ ex.wpc = "open"
  /\ scheduledCalls' = ClearScheduledCalls(scheduledCalls)
  /\ ex' = [ex EXCEPT !.wpc = "adding"]
  /\ UNCHANGED refreshRest

\* AddScheduledCall of the next call, one transaction
RefreshAdd ==
  /\ ex.phase = "refresh"
  /\ ex.wpc = "adding"
  /\ ex.todo # <<>>
  /\ scheduledCalls' = AddScheduledCall(scheduledCalls, Head(ex.todo))
  /\ ex' = [ex EXCEPT !.todo = Tail(@)]
  /\ UNCHANGED refreshRest

\* the command returns: store.Close()
RefreshClose ==
  /\ ex.phase = "refresh"
  /\ ex.wpc = "adding"
  /\ ex.todo = <<>>
  /\ ex' = [ex EXCEPT !.wpc = "idle", !.holders = @ \ {WriterHolder}]
  /\ UNCHANGED <<scheduledCalls, refreshRest>>

\* a reader starts: the command calls bbolt.Open
ReaderStart(r) ==
  /\ ex.phase = "refresh"
  /\ ex.rpc[r] \in {"idle", "listed"}
  /\ ex' = [ex EXCEPT !.rpc[r] = "opening"]
  /\ UNCHANGED <<scheduledCalls, refreshRest>>

\* Open returns with the store open read-only
ReaderOpen(r) ==
  /\ ex.phase = "refresh"
  /\ ex.rpc[r] = "opening"
  /\ CanOpen(ex.holders, TRUE)
  /\ ex' = [ex EXCEPT !.holders = @ \cup {ReaderHolder(r)}, !.rpc[r] = "open"]
  /\ UNCHANGED <<scheduledCalls, refreshRest>>

\* ListScheduledCalls and store.Close()
ReaderList(r) ==
  /\ ex.phase = "refresh"
  /\ ex.rpc[r] = "open"
  /\ ex' = [ex EXCEPT !.holders = @ \ {ReaderHolder(r)}, !.rpc[r] = "listed",
                      !.seen[r] = [listed |-> ListScheduledCalls(scheduledCalls),
                                   calls |-> scheduledCalls,
                                   old |-> ex.old, new |-> ex.new]]
  /\ UNCHANGED <<scheduledCalls, refreshRest>>

RefreshNext ==
  \/ RefreshOpen
  \/ RefreshClear
  \/ RefreshAdd
  \/ RefreshClose
  \/ \E r \in Readers : ReaderStart(r)
  \/ \E r \in Readers : ReaderOpen(r)
  \/ \E r \in Readers : ReaderList(r)

RefreshSpec == RefreshInit /\ [][RefreshNext]_vars

----------------------------------------------------------------------------
(* Properties of the worker loop *)

\* C22: between the start and the end of a dispatch tick no step of another
\* handler of the loop (refresh on the ticker or on SIGHUP, another tick)
\* runs.
C22_HandlersDoNotInterleave ==
  [][queue # <<>> => last'.op \notin {"RefreshSources", "TickStart"}]_vars

\* a tick is under way while the document behind the URL is no longer the
\* one the poller saw: a refresh now would replace the sources
C22_Witness ==
  /\ queue # <<>>
  /\ last.op = "ProcessCall"
  /\ \E u \in DOMAIN knownState : knownState[u] # remote[u]

----------------------------------------------------------------------------
(* Worker.Run as a whole: the start-up refresh and tick, then the select
   loop over the refresh ticker, the message ticker and SIGHUP. Each handler
   is one step; what it returns decides how the loop goes on. *)

ExitsOnError(err) == err

\* what Run does with the error a handler returns: slog.Error, no return
ExitsOn(err) == FALSE

\* the loop of ProcessMessages over the expanded calls; outcomes[i] is "ok"
\* or "err" for the transport of call i, "store" when the store fails on the
\* first read and processCall returns the error
RECURSIVE ProcessMessagesFrom(_, _, _, _, _)
ProcessMessagesFrom(st, calls, outcomes, i, t) ==
  IF i > Len(calls)
  THEN st
  ELSE LET call == calls[i]
           outcome == [k \in 1..Len(call.destinations[1].to) |-> outcomes[i]]
       IN IF outcomes[i] = "store"
          THEN ProcessMessagesFrom(st, calls, outcomes, i + 1, t)
          ELSE ProcessMessagesFrom(WorkerProcessCall(st, call, t, outcome, FALSE),
                                   calls, outcomes, i + 1, t)

RunInit ==
  /\ now = StartNow
  /\ remote = [u \in {URLs[1]} |-> "v1"]
  /\ knownState = <<>>
  /\ sources = <<>>
  /\ queue = <<>>
  /\ ticked = FALSE
  /\ sentMessages = <<>>
  /\ scheduledCalls = <<>>
  /\ slots = <<>>
  /\ dryRun = FALSE
  /\ slotCfg = NoSlots
  /\ last = Did("Init")
  /\ settled = {}
  /\ successes = <<>>
  /\ notified = {}
  /\ ex = [phase |-> "run",
           pc |-> "start",       \* start, startTick, select or exited
           err |-> FALSE,        \* the last handler returned or logged an error
           failed |-> FALSE,     \* some handler has done so
           after |-> FALSE]      \* a handler has run after one that did

runRest == <<now, remote, queue, ticked, scheduledCalls, dryRun, slotCfg, last, settled>>

\* RefreshSources called from Run; pc is where Run is, next where it goes
\* when the handler has returned
RunRefreshAt(pc, next) ==
  /\ ex.phase = "run"
  /\ ex.pc = pc
  /\ \E fetched \in Fetches :
       LET r == Poll(knownState, URLs, fetched)
       IN /\ knownState' = r.known
          /\ sources' = IF r.err THEN sources ELSE r.sources
          /\ ex' = [ex EXCEPT !.pc = IF ExitsOn(r.err) THEN "exited" ELSE next,
                              !.err = r.err,
                              !.failed = @ \/ r.err,
                              !.after = @ \/ ex.failed]
  /\ UNCHANGED <<sentMessages, slots, successes, notified, runRest>>

\* ProcessMessages called from Run
RunProcessAt(pc, next) ==
  /\ ex.phase = "run"
  /\ ex.pc = pc
  /\ \E r \in {ExpandOn(slots, sources, now, CalculationBefore, CalculationAfter, slotCfg)} :
       \E outcomes \in [1..Len(r.calls) -> {"ok", "err", "store"}] :
        \E st \in {ProcessMessagesFrom([sent |-> sentMessages, called |-> {},
                                        successes |-> successes, notified |-> notified],
                                       r.calls, outcomes, 1, now)} :
          LET logged == \E i \in 1..Len(r.calls) :
                          /\ outcomes[i] # "ok"
                          /\ ~IsFuture(r.calls[i], now)
          IN /\ \A k \in DOMAIN st.successes : st.successes[k] <= MaxSuccesses
             /\ sentMessages' = st.sent
             /\ successes' = st.successes
             /\ notified' = st.notified
             /\ slots' = r.slots
             /\ ex' = [ex EXCEPT !.pc = IF ExitsOn(FALSE) THEN "exited" ELSE next,
                                 !.err = logged,
                                 !.failed = @ \/ logged,
                                 !.after = @ \/ ex.failed]
  /\ UNCHANGED <<knownState, sources, runRest>>

RunStartRefresh == RunRefreshAt("start", "startTick")

RunStartProcess == RunProcessAt("startTick", "select")

\* case <-refreshTicker.C
RunRefreshTick == RunRefreshAt("select", "select")

\* case <-messageTicker.C
RunMessageTick == RunProcessAt("select", "select")

\* case <-signals: the refresh ticker is reset and the sources refreshed
RunSighup == RunRefreshAt("select", "select")

RunNext ==
  \/ RunStartRefresh
  \/ RunStartProcess
  \/ RunRefreshTick
  \/ RunMessageTick
  \/ RunSighup
  \/ (ex.phase = "run" /\ AdvanceTime)
  \/ (ex.phase = "run" /\ EditSource)

RunSpec == RunInit /\ [][RunNext]_vars

\* C23: after any error of a refresh or of a dispatch tick (poll failure,
\* store error, transport error) Run has not returned: it is at the next
\* start-up call or back at the select over the refresh ticker, the message
\* ticker and SIGHUP.
C23_LoopSurvivesErrors ==
  ex.phase = "run" =>
    /\ ex.pc # "exited"
    /\ ex.failed => ex.pc \in {"startTick", "select"}

\* a handler failed and a later handler has run since; the last one failed too
C23_Witness ==
  /\ ex.phase = "run"
  /\ ex.pc = "select"
  /\ ex.after /\ ex.err
  /\ \E id \in DOMAIN sentMessages : sentMessages[id].status = "sent"

----------------------------------------------------------------------------
(* ProcessCall on its own: one call on a store that holds any record for
   each of its recipients, with and without dry-run *)

ProcessDestinations ==
  {[type |-> "slack", to |-> <<"#general">>],
   [type |-> "email", to |-> <<"u@x.io", "all@x.io">>]}

\* the calls handed to ProcessCall: due at StartNow, rendering or not
ProcessCalls ==
  {[id |-> "c", campaign |-> Campaign, author |-> a, renders |-> r,
    scheduledAt |-> StartNow, destinations |-> <<d>>,
    defID |-> "c", kind |-> "scheduled_at", occurrence |-> StartNow] :
     a \in {"", "me@x.io"}, r \in BOOLEAN, d \in ProcessDestinations}

\* the stores ProcessCall may find: per recipient no record or a record of
\* any status
RecordsFor(call) ==
  {rec \in [RecipientIDs(call) -> {"none", "sent", "failed", "deleted"}] : TRUE}

StoreWith(call, rec) ==
  [id \in {k \in RecipientIDs(call) : rec[k] # "none"} |->
     SentMessage(call, id[4], rec[id], IF rec[id] = "sent" THEN "ts" ELSE "")]

ProcessInit ==
  /\ now = StartNow
  /\ remote = [u \in {URLs[1]} |-> "v1"]
  /\ knownState = <<>>
  /\ sources = <<>>
  /\ queue = <<>>
  /\ ticked = FALSE
  /\ scheduledCalls = <<>>
  /\ slots = <<>>
  /\ dryRun \in BOOLEAN
  /\ slotCfg = NoSlots
  /\ last = Did("Init")
  /\ settled = {}
  /\ successes = <<>>
  /\ notified = {}
  /\ \E call \in ProcessCalls :
       \E rec \in RecordsFor(call) :
         /\ sentMessages = StoreWith(call, rec)
         /\ ex = [phase |-> "process", done |-> FALSE, call |-> call,
                  prior |-> StoreWith(call, rec),   \* the store before the call
                  called |-> {},                    \* the ids the transport was called for
                  outcome |-> <<>>]                 \* what the clients returned

processRest == <<now, remote, knownState, sources, queue, ticked, scheduledCalls, slots,
                 dryRun, slotCfg, last, settled>>

\* ProcessCall(call, store, slackClient, emailClient, dryRun)
ProcessCallOnce ==
  /\ ex.phase = "process"
  /\ ~ex.done
  /\ \E outcome \in [1..Len(ex.call.destinations[1].to) -> {"ok", "err", "notifyErr"}] :
       LET st == ProcessCall([sent |-> sentMessages, called |-> {},
                              successes |-> successes, notified |-> notified],
                             ex.call, outcome, dryRun)
       IN /\ sentMessages' = st.sent
          /\ successes' = st.successes
          /\ notified' = st.notified
          /\ ex' = [ex EXCEPT !.done = TRUE, !.called = st.called, !.outcome = outcome]
  /\ UNCHANGED processRest

ProcessNext == ProcessCallOnce

ProcessSpec == ProcessInit /\ [][ProcessNext]_vars

\* C24 as stated: with dry-run enabled ProcessCall calls no transport and
\* writes or changes no SentMessage, whatever the call and whatever the
\* outcome of rendering.
C24_DryRunWritesNothing ==
  (ex.phase = "process" /\ ex.done /\ dryRun) =>
    /\ ex.called = {} /\ successes = <<>> /\ notified = {}
    /\ sentMessages = ex.prior

\* C24 as amended: with dry-run enabled ProcessCall calls no transport; it
\* leaves the SentMessages as they were when the call renders, and when it
\* does not render it records failed for every recipient that is not
\* blocked and changes nothing else.
C24_DryRunWritesOnlyRenderFailures ==
  (ex.phase = "process" /\ ex.done /\ dryRun) =>
    /\ ex.called = {} /\ successes = <<>> /\ notified = {}
    /\ ex.call.renders => sentMessages = ex.prior
    /\ ~ex.call.renders =>
         /\ DOMAIN sentMessages = DOMAIN ex.prior \cup
              {id \in RecipientIDs(ex.call) : StatusOf(ex.prior, id) \in {"none", "failed"}}
         /\ \A id \in RecipientIDs(ex.call) :
              IF StatusOf(ex.prior, id) \in {"none", "failed"}
              THEN sentMessages[id].status = "failed"
              ELSE sentMessages[id] = ex.prior[id]

\* dry-run was on for a call that renders, with a recipient that had no
\* record and one whose last attempt had failed: nothing was sent or written
C24_Witness ==
  /\ ex.phase = "process" /\ ex.done /\ dryRun
  /\ ex.call.renders
  /\ \E id, other \in RecipientIDs(ex.call) :
       /\ StatusOf(ex.prior, id) = "none"
       /\ StatusOf(ex.prior, other) = "failed"
  /\ sentMessages = ex.prior

----------------------------------------------------------------------------
(* migration.Apply: the registered migrations, the schema version in the
   store, and one step per store or migration call of Apply *)

MaxVersion == 3

\* the registries Register can have built: some versions, in any order
Registries ==
  {r \in UNION {[1..n -> 1..MaxVersion] : n \in 0..MaxVersion} :
     \A i, j \in 1..Len(r) : i # j => r[i] # r[j]}

\* a version put at its place in an ascending list
RECURSIVE InsertVersion(_, _)
InsertVersion(sorted, v) ==
  IF sorted = <<>> THEN <<v>>
  ELSE IF v < Head(sorted) THEN <<v>> \o sorted
       ELSE <<Head(sorted)>> \o InsertVersion(Tail(sorted), v)

SortByVersionKeepsOrder(registry) == registry

\* sort.Slice(migrations, by Version)
RECURSIVE SortByVersion(_)
SortByVersion(registry) ==
  IF registry = <<>> THEN <<>>
  ELSE InsertVersion(SortByVersion(Tail(registry)), Head(registry))

ApplyInit ==
  /\ now = StartNow
  /\ remote = [u \in {URLs[1]} |-> "v1"]
  /\ knownState = <<>>
  /\ sources = <<>>
  /\ queue = <<>>
  /\ ticked = FALSE
  /\ sentMessages = <<>>
  /\ scheduledCalls = <<>>
  /\ slots = <<>>
  /\ dryRun = FALSE
  /\ slotCfg = NoSlots
  /\ last = Did("Init")
  /\ settled = {}
  /\ successes = <<>>
  /\ notified = {}
  /\ \E r \in Registries, v \in 0..MaxVersion :
       ex = [phase |-> "apply",
             pc |-> "idle",          \* idle, loop, set, done
             migrations |-> r,       \* the package variable `migrations`
             version |-> v,          \* meta bucket: schema_version
             currentVersion |-> 0,   \* the local of Apply
             i |-> 1,                \* the index of the range loop
             start |-> v,            \* history: the version when Apply started
             ran |-> <<>>,           \* history: the versions whose Up returned nil
             err |-> FALSE,          \* Apply returned an error
             decreased |-> FALSE,    \* history: a write lowered the version
             cause |-> "",           \* history: the call whose error Apply returned
             failed |-> 0]           \* history: the version whose Up failed in the
                                     \* last Apply that ran the loop to its end

applyRest == <<now, remote, knownState, sources, queue, ticked, sentMessages, scheduledCalls,
               slots, dryRun, slotCfg, last, settled, successes, notified>>

\* Apply starts: the registry is sorted and the schema version read
ApplyStart ==
  /\ ex.phase = "apply"
  /\ ex.pc = "idle"
  /\ \E ok \in BOOLEAN :
       ex' = [ex EXCEPT !.migrations = SortByVersion(@),
                        !.currentVersion = IF ok THEN ex.version ELSE @,
                        !.pc = IF ok THEN "loop" ELSE "done",
                        !.err = ~ok,
                        !.cause = IF ok THEN "" ELSE "get",
                        !.i = 1, !.start = ex.version, !.ran = <<>>]
  /\ UNCHANGED applyRest

ApplyUpWritesVersionFirst ==
  /\ ex.phase = "apply"
  /\ ex.pc = "loop"
  /\ ex.i <= Len(ex.migrations)
  /\ IF ex.migrations[ex.i] > ex.currentVersion
     THEN \E ok \in BOOLEAN :
            ex' = [ex EXCEPT !.pc = IF ok THEN "set" ELSE "done",
                             !.err = ~ok,
                             !.cause = IF ok THEN @ ELSE "up",
                             !.failed = IF ok THEN @ ELSE ex.migrations[ex.i],
                             !.version = ex.migrations[ex.i],
                             !.ran = IF ok THEN Append(@, ex.migrations[ex.i]) ELSE @]
     ELSE ex' = [ex EXCEPT !.i = @ + 1]
  /\ UNCHANGED applyRest

\* one round of the loop up to the return of m.Up
ApplyUp ==
  /\ ex.phase = "apply"
  /\ ex.pc = "loop"
  /\ ex.i <= Len(ex.migrations)
  /\ IF ex.migrations[ex.i] > ex.currentVersion
     THEN \E ok \in BOOLEAN :
            ex' = [ex EXCEPT !.pc = IF ok THEN "set" ELSE "done",
                             !.err = ~ok,
                             !.cause = IF ok THEN @ ELSE "up",
                             !.failed = IF ok THEN @ ELSE ex.migrations[ex.i],
                             !.ran = IF ok THEN Append(@, ex.migrations[ex.i]) ELSE @]
     ELSE ex' = [ex EXCEPT !.i = @ + 1]
  /\ UNCHANGED applyRest

\* store.SetSchemaVersion(m.Version())
ApplySetVersion ==
  /\ ex.phase = "apply"
  /\ ex.pc = "set"
  /\ \E ok \in BOOLEAN :
       ex' = [ex EXCEPT !.version = IF ok THEN ex.migrations[ex.i] ELSE @,
                        !.decreased = @ \/ (ok /\ ex.migrations[ex.i] < ex.version),
                        !.pc = IF ok THEN "loop" ELSE "done",
                        !.err = ~ok,
                        !.cause = IF ok THEN @ ELSE "set",
                        !.failed = IF ok THEN @ ELSE 0,
                        !.i = IF ok THEN @ + 1 ELSE @]
  /\ UNCHANGED applyRest

\* the loop is over: Apply returns nil
ApplyReturn ==
  /\ ex.phase = "apply"
  /\ ex.pc = "loop"
  /\ ex.i > Len(ex.migrations)
  /\ ex' = [ex EXCEPT !.pc = "done", !.failed = 0]
  /\ UNCHANGED applyRest

\* the program is started again: Apply runs on the store as it is
ApplyAgain ==
  /\ ex.phase = "apply"
  /\ ex.pc = "done"
  /\ ex.err
  /\ ex' = [ex EXCEPT !.pc = "idle", !.err = FALSE]
  /\ UNCHANGED applyRest

ApplyNext ==
  \/ ApplyStart
  \/ ApplyUp
  \/ ApplySetVersion
  \/ ApplyReturn
  \/ ApplyAgain

ApplySpec == ApplyInit /\ [][ApplyNext]_vars

\* C25: from persisted version V, Apply runs exactly the registered
\* migrations with a version above V, in ascending order whatever the order
\* of registration, and writes each one's version right after it succeeds;
\* the persisted version never decreases.
C25_PendingMigrationsInOrder ==
  (ex.phase = "apply" /\ ex.pc # "idle") =>
    /\ ~ex.decreased
    /\ \A a, b \in 1..Len(ex.ran) : a < b => ex.ran[a] < ex.ran[b]
    /\ \A a \in 1..Len(ex.ran) :
         ex.ran[a] > ex.start /\ ex.ran[a] \in Range(ex.migrations)
    /\ (ex.pc = "loop" /\ ex.ran # <<>>) => ex.version = ex.ran[Len(ex.ran)]
    /\ (ex.pc = "done" /\ ~ex.err) =>
         /\ Range(ex.ran) = {v \in Range(ex.migrations) : v > ex.start}
         /\ ex.version = IF ex.ran = <<>> THEN ex.start ELSE ex.ran[Len(ex.ran)]

\* Apply has returned nil after running two migrations that were
\* registered newest first, leaving an older one alone
C25_Witness ==
  /\ ex.phase = "apply" /\ ex.pc = "done" /\ ~ex.err
  /\ Len(ex.ran) = 2
  /\ ex.start >= 1
  /\ ex.start \in Range(ex.migrations)

----------------------------------------------------------------------------
(* The worker with a recurring call loaded: ticks over the minutes *)

CallEveryMinute ==
  [id |-> "r", campaign |-> Campaign, author |-> "", renders |-> TRUE,
   destinations |-> <<[type |-> "slack", to |-> <<"#general">>]>>,
   triggers |-> <<[cron |-> "* * * * *"]>>]

\* the worker after the RefreshSources of Run's start has loaded a document
\* that holds the recurring call
RecurInit ==
  /\ now = StartNow
  /\ remote = [u \in {URLs[1]} |-> "v1"]
  /\ knownState = [u \in {URLs[1]} |-> "v1"]
  /\ sources = <<[calls |-> <<CallEveryMinute>>, events |-> <<>>]>>
  /\ queue = <<>>
  /\ ticked = FALSE
  /\ sentMessages = <<>>
  /\ scheduledCalls = <<>>
  /\ slots = <<>>
  /\ dryRun = FALSE
  /\ slotCfg = NoSlots
  /\ last = Did("Init")
  /\ settled = {}
  /\ successes = <<>>
  /\ notified = {}
  /\ ex = [phase |-> "recur"]

RecurNext ==
  \/ TickStart
  \/ ProcessCallStep
  \/ AdvanceTime

RecurSpec == RecurInit /\ [][RecurNext]_vars

\* no record says that this occurrence of the call went to the recipients
OccurrenceNotSent(call) ==
  \A id \in RecipientIDs(call) :
    (id \in DOMAIN sentMessages /\ sentMessages[id].status \in BlockingStatuses)
      => sentMessages[id].scheduledAt # call.scheduledAt

\* C26: sending one occurrence of a recurring call does not keep a later
\* occurrence from being sent: when the worker comes to an occurrence that
\* is due and inside the lookback period and that has not been sent, it
\* calls the transport for it.
C26_LaterOccurrenceIsSent ==
  [][(/\ queue # <<>>
      /\ Head(queue).kind \in {"cron", "rrule"}
      /\ last'.op = "ProcessCall"
      /\ last'.branch = "dispatch"
      /\ OccurrenceNotSent(Head(queue)))
       => last'.called # {}]_vars

----------------------------------------------------------------------------
(* The worker with slots configured and a midnight-aligned call loaded *)

\* slots.default: sunday at 08:02 and 08:04, monday at 08:02
TickSlots ==
  [tzOk |-> TRUE, tzOffset |-> 0,
   slots |-> [k \in {<<"default", "">>} |->
                [d \in {"sunday", "monday"} |->
                   IF d = "sunday" THEN <<At(8, 2), At(8, 4)>> ELSE <<At(8, 2)>>]]]

\* scheduled_at: 1970-01-04T00:00:00Z
CallMidnight ==
  [id |-> "m", campaign |-> Campaign, author |-> "", renders |-> TRUE,
   destinations |-> <<[type |-> "slack", to |-> <<"#general">>]>>,
   triggers |-> <<[scheduledAt |-> 3 * Day]>>]

\* the worker after the RefreshSources of Run's start; the ticker fires on
\* the whole second or half a second after it
SlotWorkerInit ==
  /\ now \in {StartNow, StartNow + 1}
  /\ remote = [u \in {URLs[1]} |-> "v1"]
  /\ knownState = [u \in {URLs[1]} |-> "v1"]
  /\ sources = <<[calls |-> <<CallMidnight, CallA>>, events |-> <<>>]>>
  /\ queue = <<>>
  /\ ticked = FALSE
  /\ sentMessages = <<>>
  /\ scheduledCalls = <<>>
  /\ slots = <<>>
  /\ dryRun = FALSE
  /\ slotCfg = TickSlots
  /\ last = Did("Init")
  /\ settled = {}
  /\ successes = <<>>
  /\ notified = {}
  /\ ex = [phase |-> "slotworker"]

SlotWorkerNext ==
  \/ TickStart
  \/ ProcessCallStep
  \/ AdvanceTime

SlotWorkerSpec == SlotWorkerInit /\ [][SlotWorkerNext]_vars

\* no record says that the call went to one of its recipients
NotYetSent(call) ==
  \A id \in RecipientIDs(call) :
    id \notin DOMAIN sentMessages \/ sentMessages[id].status \notin BlockingStatuses

\* C27: the expansion of a tick never gives a call that has not been sent a
\* slot later than the slot an earlier tick reserved for its destination,
\* once the time of that slot has passed.
C27_PassedSlotIsKept ==
  [][last'.op = "TickStart" =>
       \A i \in 1..Len(queue') :
         \A k \in DOMAIN slots :
           (/\ IsMidnight(queue'[i].occurrence)
            /\ slots[k] = SlotKeyOf(queue'[i])
            /\ k < now
            /\ NotYetSent(queue'[i]))
             => queue'[i].scheduledAt <= k]_vars

----------------------------------------------------------------------------
(* Refresh without a change *)

\* C28: a refresh in which the poller reports no changed source (its known
\* states stay as they were) leaves the sources the worker expands, and so
\* the calls it will dispatch, as they were.
C28_UnchangedRefreshKeepsCalls ==
  [][(last'.op = "RefreshSources" /\ knownState' = knownState)
       => sources' = sources]_vars

----------------------------------------------------------------------------
(* Expand over triggers that fail *)

FailTriggers ==
  {[scheduledAt |-> StartNow + Minute],
   [scheduledAt |-> 3 * Day],
   [cron |-> "0 * * * *"],
   [rrule |-> "FREQ=HOURLY", dstart |-> "19700104T090000"],
   [sequence |-> "launch", delta |-> "1m"],
   [cron |-> "bad cron"],
   [scheduledAt |-> StartNow + Minute, cron |-> "bad cron"],
   [rrule |-> "bad rrule"],
   [rrule |-> "FREQ=HOURLY", dstart |-> "bad dstart"],
   [rrule |-> "FREQ=HOURLY", dstart |-> "TZID=Nowhere/None:19700104T090000"],
   [sequence |-> "launch", delta |-> "bad delta"]}

FailTriggerLists == UNION {[1..n -> FailTriggers] : n \in 1..MaxTriggers}

FailSources ==
  {<<[calls |-> <<[id |-> "c", campaign |-> Campaign, author |-> "", renders |-> TRUE,
                   destinations |-> ds, triggers |-> ts]>>,
      events |-> <<Launch>>]>> : ds \in ExDestinationLists, ts \in FailTriggerLists}

FailInputs ==
  [phase : {"input"},
   now : {StartNow + k : k \in 0..MaxOffset},
   before : {Minute},
   after : {2 * Hour},
   sources : FailSources,
   cfg : {NoSlots, WithSlots, BadZoneSlots},
   calls : {<<>>},
   calls2 : {<<>>},
   slots : {<<>>}]

FailExpandInit ==
  /\ now = StartNow
  /\ remote = [u \in {URLs[1]} |-> "v1"]
  /\ knownState = <<>>
  /\ sources = <<>>
  /\ queue = <<>>
  /\ ticked = FALSE
  /\ sentMessages = <<>>
  /\ scheduledCalls = <<>>
  /\ slots = <<>>
  /\ dryRun = FALSE
  /\ slotCfg = NoSlots
  /\ last = Did("Init")
  /\ settled = {}
  /\ successes = <<>>
  /\ notified = {}
  /\ ex \in FailInputs

FailExpandSpec == FailExpandInit /\ [][ExpandNext]_vars

\* a slot list is configured for the destination
HasSlotList(cfg, destination) ==
  \E i \in 1..Len(SlotKeys(destination)) : SlotKeys(destination)[i] \in DOMAIN cfg.slots

\* the tuple hits one of the error paths of Expand: a text that does not
\* parse, or a slot search that returns an error
TupleFails(x, cfg) ==
  \/ Has(x.trigger, "cron") /\ ~CronTable[x.trigger.cron].ok
  \/ Has(x.trigger, "rrule") /\ ~RRuleTable[x.trigger.rrule].ok
  \/ Has(x.trigger, "rrule") /\ Has(x.trigger, "dstart")
       /\ ~DStartTable[x.trigger.dstart].parseOk
  \/ Has(x.trigger, "sequence") /\ Has(x.trigger, "delta")
       /\ ~DeltaTable[x.trigger.delta].ok
  \/ Has(x.trigger, "scheduledAt") /\ IsMidnight(x.trigger.scheduledAt)
       /\ ~cfg.tzOk /\ HasSlotList(cfg, x.destination)

\* the tuples of the input in the order Expand visits them
ExTupleSeq == AllTuples(ex.sources)

Without(seq, k) == SubSeq(seq, 1, k - 1) \o SubSeq(seq, k + 1, Len(seq))

\* what Expand emits for the tuples of the input but the k-th
CallsWithout(k) ==
  ExpandLoop([calls |-> <<>>, slots |-> <<>>], Without(ExTupleSeq, k),
             ex.now, ex.before, ex.after, ex.cfg).calls

\* C29: a tuple whose trigger does not parse or whose slot search fails
\* takes nothing from the other tuples: every instance Expand emits for the
\* input without that tuple is emitted for the input with it.
C29_FailureSkipsOnlyItsTuple ==
  ExDone =>
    \A k \in 1..Len(ExTupleSeq) :
      TupleFails(ExTupleSeq[k], ex.cfg) => Range(CallsWithout(k)) \subseteq Range(ex.calls)

\* a failing tuple is followed by a tuple that produces instances, and they
\* were emitted
C29_Witness ==
  /\ ExDone
  /\ \E k \in 1..Len(ExTupleSeq) :
       /\ TupleFails(ExTupleSeq[k], ex.cfg)
       /\ k < Len(ExTupleSeq)
       /\ ~TupleFails(ExTupleSeq[k + 1], ex.cfg)
       /\ CallsWithout(k) # <<>>
       /\ Range(CallsWithout(k)) \subseteq Range(ex.calls)

\* the dstart names a zone time.LoadLocation does not know
ZoneUnresolved(x) ==
  /\ Has(x.trigger, "rrule") /\ Has(x.trigger, "dstart")
  /\ DStartTable[x.trigger.dstart].hasTz
  /\ ~DStartTable[x.trigger.dstart].tzOk

\* the emitted rrule instances with the call, rule text and destination of x
EmittedFor(x) ==
  {i \in 1..Len(ex.calls) :
     /\ ex.calls[i].kind = "rrule"
     /\ ex.calls[i].defID = x.def.id
     /\ ex.calls[i].id[3] = x.trigger.rrule
     /\ ex.calls[i].destinations = <<x.destination>>}

\* x is the only tuple of its call, rule text and destination
OnlyTupleOfItsRule(x) ==
  \A j \in 1..Len(ExTupleSeq) :
    (/\ Has(ExTupleSeq[j].trigger, "rrule")
     /\ ExTupleSeq[j].trigger.rrule = x.trigger.rrule
     /\ ExTupleSeq[j].def.id = x.def.id
     /\ ExTupleSeq[j].destination = x.destination)
      => ExTupleSeq[j].trigger = x.trigger

\* C30 as stated: Expand emits no instance for an rrule tuple whose dstart
\* names a timezone that cannot be resolved.
C30_UnresolvedZoneSkipped ==
  ExDone =>
    \A k \in 1..Len(ExTupleSeq) :
      (ZoneUnresolved(ExTupleSeq[k]) /\ OnlyTupleOfItsRule(ExTupleSeq[k]))
        => EmittedFor(ExTupleSeq[k]) = {}

\* the date-time of the dstart without its TZID part
BareDStart(trigger) ==
  IF Has(trigger, "dstart") /\ trigger.dstart = "TZID=Nowhere/None:19700104T090000"
  THEN [trigger EXCEPT !.dstart = "19700104T090000"]
  ELSE trigger

\* the sources with every dstart of an unresolvable zone written without zone
InUTC(srcs) ==
  [si \in 1..Len(srcs) |->
     [srcs[si] EXCEPT !.calls =
        [ci \in 1..Len(srcs[si].calls) |->
           [srcs[si].calls[ci] EXCEPT !.triggers =
              [ti \in 1..Len(srcs[si].calls[ci].triggers) |->
                 BareDStart(srcs[si].calls[ci].triggers[ti])]]]]]

\* C30 as amended: an rrule trigger whose dstart names a timezone that
\* cannot be resolved is not skipped; its date-time is read in UTC, so
\* Expand emits what it emits for the same dstart written without a zone.
C30_UnresolvedZoneReadInUTC ==
  ExDone =>
    ex.calls = Expand(InUTC(ex.sources), ex.now, ex.before, ex.after, ex.cfg).calls

\* the only trigger has a dstart in an unknown zone, and its occurrences at
\* 09:00 and 10:00 UTC were emitted
C30_Witness ==
  /\ ExDone
  /\ \A k \in 1..Len(ExTupleSeq) : ZoneUnresolved(ExTupleSeq[k])
  /\ \E i, j \in 1..Len(ex.calls) :
       /\ ex.calls[i].scheduledAt = 3 * Day + 9 * Hour
       /\ ex.calls[j].scheduledAt = 3 * Day + 10 * Hour

----------------------------------------------------------------------------
(* Expand under slot configurations at the edges of the search *)

\* slots.timezone = Europe/Berlin with a slot half an hour after local midnight
BerlinEarlySlots ==
  [tzOk |-> TRUE, tzOffset |-> Hour,
   slots |-> [k \in {<<"default", "">>} |->
                [d \in {"sunday", "monday"} |->
                   IF d = "sunday" THEN <<At(0, 30), At(9, 0)>> ELSE <<At(0, 30)>>]]]

\* slots.default holds one weekday with one slot
OneSlotAWeek ==
  [tzOk |-> TRUE, tzOffset |-> 0,
   slots |-> [k \in {<<"default", "">>} |-> [d \in {"sunday"} |-> <<At(9, 0)>>]]]

\* slots.default holds a weekday with an empty list and nothing else
EmptyDaySlots ==
  [tzOk |-> TRUE, tzOffset |-> 0,
   slots |-> [k \in {<<"default", "">>} |-> [d \in {"sunday"} |-> <<>>]]]

\* a call whose one trigger is a midnight more than SearchDays days ago
LongAgoSource ==
  <<[calls |-> <<[id |-> "c", campaign |-> Campaign, author |-> "", renders |-> TRUE,
                  destinations |-> <<[type |-> "slack", to |-> <<"#general">>]>>,
                  triggers |-> <<[scheduledAt |-> 3 * Day - 399 * Day]>>]>>,
     events |-> <<Launch>>]>>

EdgeSlotInit ==
  /\ now = StartNow
  /\ remote = [u \in {URLs[1]} |-> "v1"]
  /\ knownState = <<>>
  /\ sources = <<>>
  /\ queue = <<>>
  /\ ticked = FALSE
  /\ sentMessages = <<>>
  /\ scheduledCalls = <<>>
  /\ slots = <<>>
  /\ dryRun = FALSE
  /\ slotCfg = NoSlots
  /\ last = Did("Init")
  /\ settled = {}
  /\ successes = <<>>
  /\ notified = {}
  /\ ex \in [phase : {"input"},
             now : {StartNow + k : k \in 0..MaxOffset},
             before : {Day},
             after : {Day},
             sources : SlotSources,
             cfg : {WithSlots, BerlinEarlySlots, EmptyDaySlots},
             calls : {<<>>},
             calls2 : {<<>>},
             slots : {<<>>}]
           \cup
           [phase : {"input"},
            now : {StartNow + k : k \in 0..MaxOffset},
            before : {400 * Day},
            after : {Day},
            sources : {LongAgoSource},
            cfg : {OneSlotAWeek, EmptyDaySlots},
            calls : {<<>>},
            calls2 : {<<>>},
            slots : {<<>>}]

EdgeSlotSpec == EdgeSlotInit /\ [][ExpandNext]_vars

\* C31 as stated: a slot time the engine returns is not before now and not
\* before the day (UTC) of the original instant, and no slot time before
\* now is reserved.
C31_SlotNotBeforeNowNorDay ==
  ExDone =>
    /\ \A k \in DOMAIN ex.slots : k >= RFC3339(ex.now)
    /\ \A i \in 1..Len(ex.calls) :
         SlotAssigned(ex.calls[i]) =>
           /\ ex.calls[i].scheduledAt >= ex.now
           /\ ex.calls[i].scheduledAt >= Truncate(ex.calls[i].occurrence, Day)

\* C31 as amended: a slot time the engine returns is not before now and not
\* before midnight, in the slots timezone, of the UTC date of the original
\* instant, which east of UTC lies before the original instant; no slot time
\* before now is reserved.
C31_SlotNotBeforeNowNorLocalDay ==
  ExDone =>
    /\ \A k \in DOMAIN ex.slots : k >= RFC3339(ex.now)
    /\ \A i \in 1..Len(ex.calls) :
         SlotAssigned(ex.calls[i]) =>
           /\ ex.calls[i].scheduledAt >= ex.now
           /\ ex.calls[i].scheduledAt >= Truncate(ex.calls[i].occurrence, Day) - ex.cfg.tzOffset

\* an instance asked for a midnight that has passed and got a slot later
\* that day, after slots of that day before now were passed over
C31_Witness ==
  /\ ExDone
  /\ ex.cfg = BerlinEarlySlots
  /\ \E i \in 1..Len(ex.calls) :
       /\ SlotAssigned(ex.calls[i])
       /\ ex.calls[i].occurrence = 3 * Day
       /\ ex.calls[i].scheduledAt > ex.now

\* every slot time the search may try for an instant: the slots of each of
\* the SearchDays days from the instant's day on
Candidates(cfg, destination, t) ==
  UNION {{(Truncate(t + d * Day, Day) - cfg.tzOffset)
             + SlotsByDay(cfg, destination)[Weekday(t + d * Day)][k].h * Hour
             + SlotsByDay(cfg, destination)[Weekday(t + d * Day)][k].m * Minute :
            k \in 1..Len(SlotsByDay(cfg, destination)[Weekday(t + d * Day)])} :
         d \in {e \in 0..(SearchDays - 1) :
                  Weekday(t + e * Day) \in DOMAIN SlotsByDay(cfg, destination)}}

\* the instances emitted for a scheduled_at tuple
EmittedForScheduledAt(x) ==
  {i \in 1..Len(ex.calls) :
     /\ ex.calls[i].kind = "scheduled_at"
     /\ ex.calls[i].defID = x.def.id
     /\ ex.calls[i].occurrence = x.trigger.scheduledAt
     /\ ex.calls[i].destinations = <<x.destination>>}

\* the tuple goes through the slot search
Searched(x) ==
  /\ Has(x.trigger, "scheduledAt")
  /\ IsMidnight(x.trigger.scheduledAt)
  /\ HasSlotList(ex.cfg, x.destination)
  /\ ex.cfg.tzOk

----------------------------------------------------------------------------
(* the worker beside the operator's listing commands, on one store *)

\* `ruf scheduled list`: a store from datastore.NewStore(), the sources of
\* the configured urls, then Expand over the calculation window
ScheduledList ==
  /\ \E r \in {ExpandOn(slots, sources, now, CalculationBefore, CalculationAfter, slotCfg)} :
       slots' = r.slots
  /\ last' = Did("ScheduledList")
  /\ UNCHANGED <<now, remote, knownState, sources, queue, ticked, sentMessages,
                 scheduledCalls, dryRun, slotCfg, settled, successes, notified, ex>>

\* `ruf scheduled missed`: a store from datastore.NewStore(true), which is
\* read-only on bbolt (ClearAllSlots fails and Expand returns nothing) and
\* the same writable client on firestore; --days 1
ScheduledMissed ==
  /\ \E datastoreType \in {"bbolt", "firestore"} :
       \E r \in {ExpandOn(slots, sources, now, Day, 0, slotCfg)} :
         slots' = IF datastoreType = "firestore" THEN r.slots ELSE slots
  /\ last' = Did("ScheduledMissed")
  /\ UNCHANGED <<now, remote, knownState, sources, queue, ticked, sentMessages,
                 scheduledCalls, dryRun, slotCfg, settled, successes, notified, ex>>

ListingNext ==
  \/ TickStart
  \/ ProcessCallStep
  \/ AdvanceTime
  \/ ScheduledList
  \/ ScheduledMissed

ListingSpec == SlotWorkerInit /\ [][ListingNext]_vars

\* C33: a dispatch tick and the listings `scheduled list` and `scheduled
\* missed` leave the slot reservations as they found them.
C33_TicksAndListingsKeepSlots ==
  [][last'.op \in {"TickStart", "ScheduledList", "ScheduledMissed"} => slots' = slots]_vars

----------------------------------------------------------------------------
(* Poller: a URL that fails and recovers *)

\* the claim at a step of Poll, for the fetches counted as failures: a URL
\* that failed keeps the state the poller held for it, and a URL that serves
\* again what it served before its failure is not among the returned sources
KeptAcrossFailure(failures) ==
  \A u \in Range(PollURLs) :
    /\ (ex'.polls >= 1 /\ ex'.fetched[u] \in failures)
         => KnownStateOf(knownState', u) = KnownStateOf(ex'.prior, u)
    /\ (/\ ex.polls >= 2
        /\ ex.before[u] \in {"v1", "v2"}
        /\ ex.fetched[u] \in failures
        /\ ex'.fetched[u] = ex.before[u])
         => u \notin Range(ex'.from)

\* C34 as stated, a failure being a fetch or parse error or a document that
\* the parser rejects: the last-seen state of the URL is left unchanged and
\* the URL recovering with its earlier content is not reported as changed.
C34_FailureKeepsState ==
  [][KeptAcrossFailure({"err", "bad"})]_vars

\* C34 as amended, a failure being an error returned by Source (the fetch
\* failed or the document is not YAML): the last-seen state of the URL is
\* left unchanged and the URL recovering with its earlier content is not
\* reported as changed.
C34_ErrorKeepsState ==
  [][KeptAcrossFailure({"err"})]_vars

\* a URL served v1, failed, and served v1 again: the last poll found the
\* state of v1 still held and returned nothing for the URL
C34_Witness ==
  /\ ex.phase = "poll" /\ ex.polls >= 2
  /\ \E u \in Range(PollURLs) :
       /\ ex.before[u] = "err"
       /\ ex.fetched[u] = "v1"
       /\ KnownStateOf(ex.prior, u) = "v1"
       /\ u \notin Range(ex.from)

----------------------------------------------------------------------------
(* The dispatch tick and the scheduled time *)

\* C35: a call whose scheduledAt is later than now is skipped by the
\* dispatch tick, without a transport call and without a record written, so
\* that no record says sent for a time that has not come.
C35_FutureCallIsSkipped ==
  [][/\ (Processes /\ now < Head(queue).scheduledAt) =>
          /\ last'.called = {}
          /\ sentMessages' = sentMessages
          /\ successes' = successes
     /\ (Processes /\ last'.called # {}) => Head(queue).scheduledAt <= now
     /\ \A id \in DOMAIN sentMessages' :
          sentMessages'[id].status = "sent" => sentMessages'[id].scheduledAt <= now']_vars

\* the tick met a call of the future and left it, and met a due call and
\* sent it
C35_Witness ==
  /\ last.op = "ProcessCall"
  /\ last.branch = "future"
  /\ last.called = {}
  /\ \E id \in DOMAIN sentMessages : sentMessages[id].status = "sent"

----------------------------------------------------------------------------
(* ProcessCall: what is recorded for a recipient *)

\* the recipients of the processed call that no record blocked
Attempted ==
  {i \in 1..Len(ex.call.destinations[1].to) :
     ~HasBeenSent(ex.prior, ex.call.campaign.id, ex.call.id,
                  ex.call.destinations[1].type, ex.call.destinations[1].to[i])}

RecipientID(i) ==
  GenerateID(ex.call.campaign.id, ex.call.id, ex.call.destinations[1].type,
             ex.call.destinations[1].to[i])

\* C36: when the subject or the content of the call does not render, a record
\* with status failed is written for each recipient that is attempted and
\* the transport is called for none.
C36_RenderFailureIsRecorded ==
  (/\ ex.phase = "process" /\ ex.done
   /\ ~ex.call.renders
   /\ ex.call.destinations[1].type \in {"slack", "email"})
  => /\ ex.called = {}
     /\ successes = <<>>
     /\ \A i \in Attempted :
          /\ RecipientID(i) \in DOMAIN sentMessages
          /\ sentMessages[RecipientID(i)].status = "failed"
          /\ sentMessages[RecipientID(i)].timestamp = ""

\* a call that does not render went to two recipients, one of them without
\* a record before, and the store holds a failed record for it
C36_Witness ==
  /\ ex.phase = "process" /\ ex.done
  /\ ~ex.call.renders
  /\ ~dryRun
  /\ Len(ex.call.destinations[1].to) >= 2
  /\ \E i \in Attempted :
       /\ RecipientID(i) \notin DOMAIN ex.prior
       /\ sentMessages[RecipientID(i)].status = "failed"

\* C37: after a transport attempt the recipient has one record: status
\* failed with an empty timestamp when the transport returned an error,
\* status sent with the handle the transport returned when it succeeded, and
\* status sent as well when the author's notification failed afterwards.
C37_OneStatusPerAttempt ==
  (ex.phase = "process" /\ ex.done) =>
    \A i \in 1..Len(ex.call.destinations[1].to) :
      RecipientID(i) \in ex.called =>
        /\ RecipientID(i) \in DOMAIN sentMessages
        /\ sentMessages[RecipientID(i)].destination = ex.call.destinations[1].to[i]
        /\ IF ex.outcome[i] = "err"
           THEN /\ sentMessages[RecipientID(i)].status = "failed"
                /\ sentMessages[RecipientID(i)].timestamp = ""
           ELSE /\ sentMessages[RecipientID(i)].status = "sent"
                /\ sentMessages[RecipientID(i)].timestamp
                     = IF ex.call.destinations[1].type = "slack" THEN "ts" ELSE ""

\* a slack message with an author went out, NotifyAuthor was called and
\* failed, and the record of the recipient says sent
C37_Witness ==
  /\ ex.phase = "process" /\ ex.done
  /\ ex.call.destinations[1].type = "slack"
  /\ ex.call.author # ""
  /\ ex.outcome = <<"notifyErr">>
  /\ RecipientID(1) \in ex.called
  /\ RecipientID(1) \in notified
  /\ sentMessages[RecipientID(1)].status = "sent"

----------------------------------------------------------------------------
(* ProcessorStack.Process *)

MaxStack == 3

\* a text is a sequence of pieces; data is {Name: "World", Bold: "**"}
MapPieces(content, table) ==
  [k \in 1..Len(content) |->
     IF content[k] \in DOMAIN table THEN table[content[k]] ELSE content[k]]

\* TemplateProcessor.Process: an action that does not close fails to parse,
\* the others are replaced by their value
Template(content) ==
  IF \E k \in 1..Len(content) : content[k] = "{{"
  THEN [err |-> TRUE, content |-> <<>>]
  ELSE [err |-> FALSE,
        content |-> MapPieces(content, [t \in {"{{.Name}}", "{{.Bold}}"} |->
                                          IF t = "{{.Name}}" THEN "World" ELSE "**"])]

\* MarkdownToHTMLProcessor.Process: strong emphasis becomes an element and
\* the text a paragraph
MarkdownToHTML(content) ==
  [err |-> FALSE,
   content |-> <<"<p>">> \o MapPieces(content, [t \in {"**"} |-> "<strong>"]) \o <<"</p>">>]

\* MarkdownToSlackProcessor.Process: strong emphasis becomes *...*
MarkdownToSlack(content) ==
  [err |-> FALSE, content |-> MapPieces(content, [t \in {"**"} |-> "*"])]

\* p.Process(content, data)
ProcessWith(p, content) ==
  IF p = "template" THEN Template(content)
  ELSE IF p = "html" THEN MarkdownToHTML(content)
  ELSE MarkdownToSlack(content)

LoopBodyFeedsInput(st) ==
  LET r == ProcessWith(st.stack[st.i], st.input)
      ran == Append(st.ran, [p |-> st.stack[st.i], in |-> st.input])
  IN IF r.err
     THEN [st EXCEPT !.pc = "done", !.err = TRUE, !.out = <<>>, !.ran = ran]
     ELSE [st EXCEPT !.content = r.content, !.i = @ + 1, !.ran = ran]

\* the body of the loop of ProcessorStack.Process: content, err =
\* p.Process(content, data), and the return of "" and the error; ran is the
\* history of the processors called and of what each was given
LoopBody(st) ==
  LET r == ProcessWith(st.stack[st.i], st.content)
      ran == Append(st.ran, [p |-> st.stack[st.i], in |-> st.content])
  IN IF r.err
     THEN [st EXCEPT !.pc = "done", !.err = TRUE, !.out = <<>>, !.ran = ran]
     ELSE [st EXCEPT !.content = r.content, !.i = @ + 1, !.ran = ran]

StackInit ==
  /\ now = StartNow
  /\ remote = [u \in {URLs[1]} |-> "v1"]
  /\ knownState = <<>>
  /\ sources = <<>>
  /\ queue = <<>>
  /\ ticked = FALSE
  /\ sentMessages = <<>>
  /\ scheduledCalls = <<>>
  /\ slots = <<>>
  /\ dryRun = FALSE
  /\ slotCfg = NoSlots
  /\ last = Did("Init")
  /\ settled = {}
  /\ successes = <<>>
  /\ notified = {}
  /\ \E stack \in UNION {[1..n -> {"template", "html", "slack"}] : n \in 0..MaxStack},
        input \in {<<"**", "Hello", "{{.Name}}", "**">>,
                   <<"{{.Bold}}", "Hello", "**">>,
                   <<"**", "Hello", "{{">>} :
       ex = [phase |-> "stack", pc |-> "loop", stack |-> stack, input |-> input,
             content |-> input, i |-> 1, err |-> FALSE, out |-> <<>>, ran |-> <<>>]

stackRest == <<now, remote, knownState, sources, queue, ticked, sentMessages,
               scheduledCalls, slots, dryRun, slotCfg, last, settled, successes, notified>>

\* one iteration of `for _, p := range s`
StackStep ==
  /\ ex.phase = "stack" /\ ex.pc = "loop"
  /\ ex.i <= Len(ex.stack)
  /\ ex' = LoopBody(ex)
  /\ UNCHANGED stackRest

\* return content, nil
StackReturn ==
  /\ ex.phase = "stack" /\ ex.pc = "loop"
  /\ ex.i > Len(ex.stack)
  /\ ex' = [ex EXCEPT !.pc = "done", !.out = ex.content]
  /\ UNCHANGED stackRest

StackNext ==
  \/ StackStep
  \/ StackReturn

StackSpec == StackInit /\ [][StackNext]_vars

\* what the first n processors of the stack make of the input, one after
\* the other
RECURSIVE Through(_, _, _)
Through(stack, input, n) ==
  IF n = 0 THEN input ELSE ProcessWith(stack[n], Through(stack, input, n - 1)).content

\* C38: Process calls its processors in the order of the stack and gives
\* each the output of the one before it; after a processor returned an
\* error no other processor is called and Process returns the error with
\* empty content; without an error it returns the output of the last.
C38_StackAppliesInOrder ==
  ex.phase = "stack" =>
    /\ Len(ex.ran) <= Len(ex.stack)
    /\ \A n \in 1..Len(ex.ran) :
         /\ ex.ran[n].p = ex.stack[n]
         /\ ex.ran[n].in = Through(ex.stack, ex.input, n - 1)
         /\ n < Len(ex.ran) => ~ProcessWith(ex.ran[n].p, ex.ran[n].in).err
    /\ ex.pc = "done" =>
         IF \E n \in 1..Len(ex.stack) :
              ProcessWith(ex.stack[n], Through(ex.stack, ex.input, n - 1)).err
              /\ \A m \in 1..(n - 1) :
                   ~ProcessWith(ex.stack[m], Through(ex.stack, ex.input, m - 1)).err
         THEN /\ ex.err
              /\ ex.out = <<>>
              /\ ProcessWith(ex.ran[Len(ex.ran)].p, ex.ran[Len(ex.ran)].in).err
         ELSE /\ ~ex.err
              /\ Len(ex.ran) = Len(ex.stack)
              /\ ex.out = Through(ex.stack, ex.input, Len(ex.stack))

\* the second of three processors failed on what the first had made of the
\* input, and Process returned the error without calling the third
C38_Witness ==
  /\ ex.phase = "stack" /\ ex.pc = "done"
  /\ Len(ex.stack) = 3
  /\ Len(ex.ran) = 2
  /\ ex.ran[2].in # ex.input
  /\ ex.err
  /\ ex.out = <<>>

----------------------------------------------------------------------------
(* Apply: a migration whose Up fails *)

\* C39: when the Up of a migration fails, Apply has returned the error, every
\* migration it ran has a lower version, the persisted schema version is
\* that of the last migration that succeeded, or the one Apply started from
\* if none did, and the first migration a later Apply runs is the failed one.
C39_FailedUpStopsAndResumes ==
  ex.phase = "apply" =>
    /\ (ex.pc = "done" /\ ex.cause = "up") =>
         /\ ex.err
         /\ ex.failed = ex.migrations[ex.i]
         /\ \A a \in 1..Len(ex.ran) : ex.ran[a] < ex.failed
         /\ ex.version = IF ex.ran = <<>> THEN ex.start ELSE ex.ran[Len(ex.ran)]
         /\ ex.version < ex.failed
    /\ (/\ ex.pc = "loop" /\ ex.failed # 0 /\ ex.ran = <<>>
        /\ ex.i <= Len(ex.migrations)
        /\ ex.migrations[ex.i] > ex.currentVersion)
         => ex.migrations[ex.i] = ex.failed

\* an Apply ran one migration, failed in the Up of the next and was started
\* again: it stands before the migration that failed
C39_Witness ==
  /\ ex.phase = "apply"
  /\ ex.pc = "loop"
  /\ ex.failed >= 2
  /\ ex.ran = <<>>
  /\ ex.start >= 1
  /\ ex.start < ex.failed
  /\ ex.i <= Len(ex.migrations)
  /\ ex.migrations[ex.i] = ex.failed

----------------------------------------------------------------------------
(* Destinations without a recipient *)

\* a call without destinations and one whose destination has an empty `to`
CallNoDestinations ==
  [id |-> "n", campaign |-> Campaign, author |-> "", renders |-> TRUE,
   destinations |-> <<>>,
   triggers |-> <<[scheduledAt |-> StartNow + Minute]>>]

CallEmptyTo ==
  [id |-> "e", campaign |-> Campaign, author |-> "", renders |-> TRUE,
   destinations |-> <<[type |-> "slack", to |-> <<>>]>>,
   triggers |-> <<[scheduledAt |-> StartNow + Minute]>>]

CrashCallLists ==
  {<<CallMidnight, CallA>>, <<CallA, CallNoDestinations>>, <<CallNoDestinations>>,
   <<CallMidnight, CallEmptyTo>>, <<CallEmptyTo, CallA>>}

\* the scheduled_at branch builds the id from destination.To[0] before
\* anything else: on an empty `to` the index is out of range and the Go
\* run time panics (nothing in the program recovers)
TuplePanics(x) == Has(x.trigger, "scheduledAt") /\ Len(x.destination.to) = 0

\* the position of the first tuple of the iteration that panics, 0 if none
FirstPanic(tuples) ==
  LET bad == {i \in 1..Len(tuples) : TuplePanics(tuples[i])}
  IN IF bad = {} THEN 0 ELSE CHOOSE i \in bad : \A j \in bad : i <= j

\* Expand on sources whose triggers are scheduled_at: ClearAllSlots, then
\* the loops up to the first tuple that panics; a panic returns no calls
\* and leaves the reservations made before it
ExpandOrPanic(stored, loaded, t, before, after, cfg) ==
  LET tuples == AllTuples(loaded)
      k == FirstPanic(tuples)
      done == ExpandLoop([calls |-> <<>>, slots |-> ClearAllSlots(stored)],
                         IF k = 0 THEN tuples ELSE SubSeq(tuples, 1, k - 1),
                         t, before, after, cfg)
  IN [panic |-> k # 0,
      calls |-> IF k = 0 THEN done.calls ELSE <<>>,
      slots |-> done.slots]

CrashInit ==
  /\ now \in {StartNow, StartNow + 1}
  /\ remote = [u \in {URLs[1]} |-> "v1"]
  /\ knownState = [u \in {URLs[1]} |-> "v1"]
  /\ sources \in {<<[calls |-> calls, events |-> <<>>]>> : calls \in CrashCallLists}
  /\ queue = <<>>
  /\ ticked = FALSE
  /\ sentMessages = <<>>
  /\ scheduledCalls = <<>>
  /\ slots = <<>>
  /\ dryRun = FALSE
  /\ slotCfg = TickSlots
  /\ last = Did("Init")
  /\ settled = {}
  /\ successes = <<>>
  /\ notified = {}
  /\ ex = [phase |-> "crash", panicked |-> FALSE]

\* Worker.ProcessMessages up to its loop, in a process that still runs
CrashTick ==
  /\ ~ex.panicked
  /\ LoopIdle
  /\ ~ticked
  /\ \E r \in {ExpandOrPanic(slots, sources, now, CalculationBefore, CalculationAfter, slotCfg)} :
       /\ queue' = r.calls
       /\ slots' = r.slots
       /\ ex' = [ex EXCEPT !.panicked = r.panic]
  /\ ticked' = TRUE
  /\ last' = Did("TickStart")
  /\ UNCHANGED <<now, remote, knownState, sources, sentMessages, scheduledCalls,
                 dryRun, slotCfg, settled, successes, notified>>

\* a minute passes between two ticks of a process that still runs
CrashAdvance ==
  /\ ~ex.panicked
  /\ AdvanceTime

CrashNext ==
  \/ CrashTick
  \/ ProcessCallStep
  \/ CrashAdvance

CrashSpec == CrashInit /\ [][CrashNext]_vars

\* C40: Expand and the dispatch tick never crash, whatever the destinations
\* of the calls; a destination with an empty `to` and a call without
\* destinations give no instance, so every instance a tick handles has a
\* destination with a recipient.
C40_NoCrashOnEmptyDestinations ==
  ex.phase = "crash" =>
    /\ ~ex.panicked
    /\ \A i \in 1..Len(queue) :
         /\ queue[i].destinations # <<>>
         /\ queue[i].destinations[1].to # <<>>

====
